---------------------------- MODULE Spec2Model ----------------------------
(***************************************************************************)
(* The journaling key-value store of linera-views                          *)
(* (src/linera-views/src/backends/journaling.rs) over an inner store with  *)
(* atomic, size-limited batches.                                           *)
(*                                                                         *)
(* Bytes are naturals below 256, keys and values are sequences of bytes,   *)
(* the inner store is a function from the keys it holds to their values.   *)
(***************************************************************************)
EXTENDS Naturals, Integers, Sequences, FiniteSets, TLC

(***************************************************************************)
(* Limits of the inner store S, and the tags of the journal keys.          *)
(***************************************************************************)
MAX_BATCH_SIZE == 3
MAX_VALUE_SIZE == 8
MAX_BATCH_TOTAL_SIZE == 32
JOURNAL_TAG == 0
MIN_VIEW_TAG == 1
KeyTagJournal == 1
KeyTagEntry == 2

(***************************************************************************)
(* Bounds of the model.                                                    *)
(***************************************************************************)
MaxFaults == 2

NoValue == <<-1>>

(***************************************************************************)
(* Byte strings.                                                           *)
(***************************************************************************)
IsPrefix(p, k) == Len(p) <= Len(k) /\ SubSeq(k, 1, Len(p)) = p

RECURSIVE LexLess(_, _)
LexLess(a, b) ==
    IF a = <<>> THEN b # <<>>
    ELSE IF b = <<>> THEN FALSE
    ELSE IF Head(a) # Head(b) THEN Head(a) < Head(b)
    ELSE LexLess(Tail(a), Tail(b))

MinKey(S) == CHOOSE k \in S : \A x \in S : x = k \/ LexLess(k, x)

RECURSIVE SortKeys(_)
SortKeys(S) ==
    IF S = {} THEN <<>>
    ELSE LET k == MinKey(S) IN <<k>> \o SortKeys(S \ {k})

RECURSIVE Concat(_)
Concat(ss) == IF ss = <<>> THEN <<>> ELSE Head(ss) \o Concat(Tail(ss))

Range(s) == {s[i] : i \in 1..Len(s)}

(***************************************************************************)
(* BCS: a u32 is four little-endian bytes, a length is ULEB128, a byte     *)
(* string is its length followed by its bytes.                             *)
(***************************************************************************)
U32LE(n) ==
    << n % 256, (n \div 256) % 256, (n \div 65536) % 256, (n \div 16777216) % 256 >>

U32FromLE(b) == b[1] + 256 * b[2] + 65536 * b[3] + 16777216 * b[4]

RECURSIVE Uleb128(_)
Uleb128(n) ==
    IF n < 128 THEN <<n>> ELSE <<128 + (n % 128)>> \o Uleb128(n \div 128)

get_uleb128_size(n) == Len(Uleb128(n))

BcsBytes(b) == Uleb128(Len(b)) \o b

serialized_size(b) == Len(BcsBytes(b))

(***************************************************************************)
(* The journal keys.                                                       *)
(***************************************************************************)
(* A faulty key, which keeps one byte of the position. *)
get_journaling_key_OneByte(tag, pos) == <<JOURNAL_TAG, tag, pos % 256>>

get_journaling_key(tag, pos) == <<JOURNAL_TAG, tag>> \o U32LE(pos)

HeaderKey == get_journaling_key(KeyTagJournal, 0)

(* A faulty block key, which lies among the keys of the views. *)
BlockKey_ViewTag(i) == <<MIN_VIEW_TAG, KeyTagEntry>> \o U32LE(i)

BlockKey(i) == get_journaling_key(KeyTagEntry, i)

JournalHeaderBytes(block_count) == U32LE(block_count)

(***************************************************************************)
(* The inner store: reads, and the atomic application of a simplified      *)
(* batch (deletions, then insertions).                                     *)
(***************************************************************************)
Has(db, k) == k \in DOMAIN db

ReadValue(db, k) == IF k \in DOMAIN db THEN db[k] ELSE NoValue

DbPut(db, k, v) == [x \in (DOMAIN db) \cup {k} |-> IF x = k THEN v ELSE db[x]]

DbDelete(db, k) == [x \in (DOMAIN db) \ {k} |-> db[x]]

FindKeysByPrefix(db, p) == {k \in DOMAIN db : IsPrefix(p, k)}

RECURSIVE DbDeleteAll(_, _)
DbDeleteAll(db, dels) ==
    IF dels = <<>> THEN db ELSE DbDeleteAll(DbDelete(db, Head(dels)), Tail(dels))

RECURSIVE DbPutAll(_, _)
DbPutAll(db, ins) ==
    IF ins = <<>> THEN db
    ELSE DbPutAll(DbPut(db, Head(ins)[1], Head(ins)[2]), Tail(ins))

InnerWriteBatch(db, batch) == DbPutAll(DbDeleteAll(db, batch.deletions), batch.insertions)

(***************************************************************************)
(* The simplified batch of the inner store: a list of deleted keys and a   *)
(* list of inserted key-value pairs.                                       *)
(***************************************************************************)
EmptyBatch == [deletions |-> <<>>, insertions |-> <<>>]

BatchLen(batch) == Len(batch.deletions) + Len(batch.insertions)

RECURSIVE SumLen(_)
SumLen(ss) == IF ss = <<>> THEN 0 ELSE Len(Head(ss)) + SumLen(Tail(ss))

BatchNumBytes(batch) ==
    SumLen(batch.deletions)
      + SumLen([i \in 1..Len(batch.insertions) |->
                  batch.insertions[i][1] \o batch.insertions[i][2]])

overhead_size(batch) ==
    get_uleb128_size(Len(batch.deletions)) + get_uleb128_size(Len(batch.insertions))

add_delete(batch, key) == [batch EXCEPT !.deletions = Append(@, key)]

add_insert(batch, key, value) == [batch EXCEPT !.insertions = Append(@, <<key, value>>)]

BcsBatch(batch) ==
    Uleb128(Len(batch.deletions))
      \o Concat([i \in 1..Len(batch.deletions) |-> BcsBytes(batch.deletions[i])])
      \o Uleb128(Len(batch.insertions))
      \o Concat([i \in 1..Len(batch.insertions) |->
                   BcsBytes(batch.insertions[i][1]) \o BcsBytes(batch.insertions[i][2])])


(***************************************************************************)
(* BCS decoding of a block: fails on a truncated or over-long value.       *)
(***************************************************************************)
ParseFail == [ok |-> FALSE, val |-> <<>>, next |-> 0]

RECURSIVE ReadUleb128(_, _)
ReadUleb128(s, i) ==
    IF i > Len(s) THEN [ok |-> FALSE, val |-> 0, next |-> 0]
    ELSE IF s[i] < 128 THEN [ok |-> TRUE, val |-> s[i], next |-> i + 1]
    ELSE LET r == ReadUleb128(s, i + 1)
         IN  [ok |-> r.ok, val |-> (s[i] - 128) + 128 * r.val, next |-> r.next]

ReadBytes(s, i) ==
    LET n == ReadUleb128(s, i)
    IN  IF ~n.ok \/ n.next + n.val - 1 > Len(s) THEN ParseFail
        ELSE [ok |-> TRUE, val |-> SubSeq(s, n.next, n.next + n.val - 1),
              next |-> n.next + n.val]

RECURSIVE ReadKeys(_, _, _)
ReadKeys(s, i, count) ==
    IF count = 0 THEN [ok |-> TRUE, val |-> <<>>, next |-> i]
    ELSE LET k == ReadBytes(s, i)
         IN  IF ~k.ok THEN ParseFail
             ELSE LET r == ReadKeys(s, k.next, count - 1)
                  IN  IF ~r.ok THEN ParseFail
                      ELSE [ok |-> TRUE, val |-> <<k.val>> \o r.val, next |-> r.next]

RECURSIVE ReadPairs(_, _, _)
ReadPairs(s, i, count) ==
    IF count = 0 THEN [ok |-> TRUE, val |-> <<>>, next |-> i]
    ELSE LET k == ReadBytes(s, i)
         IN  IF ~k.ok THEN ParseFail
             ELSE LET v == ReadBytes(s, k.next)
                  IN  IF ~v.ok THEN ParseFail
                      ELSE LET r == ReadPairs(s, v.next, count - 1)
                           IN  IF ~r.ok THEN ParseFail
                               ELSE [ok |-> TRUE, val |-> << <<k.val, v.val>> >> \o r.val,
                                     next |-> r.next]

BcsParseBatch(s) ==
    LET nd == ReadUleb128(s, 1)
    IN  IF ~nd.ok THEN [ok |-> FALSE, batch |-> EmptyBatch]
        ELSE LET d == ReadKeys(s, nd.next, nd.val)
             IN  IF ~d.ok THEN [ok |-> FALSE, batch |-> EmptyBatch]
                 ELSE LET ni == ReadUleb128(s, d.next)
                      IN  IF ~ni.ok THEN [ok |-> FALSE, batch |-> EmptyBatch]
                          ELSE LET p == ReadPairs(s, ni.next, ni.val)
                               IN  IF ~p.ok \/ p.next # Len(s) + 1
                                   THEN [ok |-> FALSE, batch |-> EmptyBatch]
                                   ELSE [ok |-> TRUE,
                                         batch |-> [deletions |-> d.val, insertions |-> p.val]]

BcsParseHeader(s) ==
    IF Len(s) # 4 THEN [ok |-> FALSE, block_count |-> 0]
    ELSE [ok |-> TRUE, block_count |-> U32FromLE(s)]

(***************************************************************************)
(* A user batch is a sequence of Put, Delete and DeletePrefix operations.  *)
(* ApplyOperations interprets it in order; from_batch simplifies it to one *)
(* deletion or insertion per key, expanding the prefix deletions to the    *)
(* keys the store holds.                                                   *)
(***************************************************************************)
Put(k, v) == [op |-> "Put", key |-> k, value |-> v]

Delete(k) == [op |-> "Delete", key |-> k, value |-> <<>>]

DeletePrefix(p) == [op |-> "DeletePrefix", key |-> p, value |-> <<>>]

RECURSIVE ApplyOperations(_, _)
ApplyOperations(db, ops) ==
    IF ops = <<>> THEN db
    ELSE LET o == Head(ops)
             next ==
                 CASE o.op = "Put" -> DbPut(db, o.key, o.value)
                   [] o.op = "Delete" -> DbDelete(db, o.key)
                   [] OTHER -> [x \in {k \in DOMAIN db : ~IsPrefix(o.key, k)} |-> db[x]]
         IN  ApplyOperations(next, Tail(ops))

RECURSIVE Simplify(_, _, _)
Simplify(ops, m, prefixes) ==
    IF ops = <<>> THEN [map |-> m, prefixes |-> prefixes]
    ELSE LET o == Head(ops)
         IN  CASE o.op = "Put" ->
                    Simplify(Tail(ops), DbPut(m, o.key, o.value), prefixes)
               [] o.op = "Delete" ->
                    Simplify(Tail(ops), DbPut(m, o.key, NoValue), prefixes)
               [] OTHER ->
                    Simplify(Tail(ops),
                             [x \in {k \in DOMAIN m : ~IsPrefix(o.key, k)} |-> m[x]],
                             {q \in prefixes : ~IsPrefix(o.key, q)} \cup {o.key})

from_batch(db, ops) ==
    LET s == Simplify(ops, <<>>, {})
        inserted == {k \in DOMAIN s.map : s.map[k] # NoValue}
        covered(k) == \E p \in s.prefixes : IsPrefix(p, k)
        deleted == {k \in DOMAIN s.map : s.map[k] = NoValue /\ ~covered(k)}
        expanded == {k \in DOMAIN db : covered(k) /\ k \notin inserted}
        ins == SortKeys(inserted)
    IN  [deletions |-> SortKeys(deleted) \o SortKeys(expanded),
         insertions |-> [i \in 1..Len(ins) |-> <<ins[i], s.map[ins[i]]>>]]

(***************************************************************************)
(* write_journal: the loop that cuts the batch into blocks and packs the   *)
(* blocks into transactions, run from one backend write to the next.       *)
(***************************************************************************)
Limits ==
    [max_batch_size |-> MAX_BATCH_SIZE,
     max_value_size |-> MAX_VALUE_SIZE,
     max_batch_total_size |-> MAX_BATCH_TOTAL_SIZE]

key_len == Len(HeaderKey)

header_value_len == Len(JournalHeaderBytes(0))

journal_len_upper_bound == key_len + header_value_len

max_block_size(lim) ==
    LET a == lim.max_value_size
        b == lim.max_batch_total_size - key_len - journal_len_upper_bound
    IN  IF a < b THEN a ELSE b

WriteJournalInit(batch) ==
    [deletions |-> batch.deletions,
     insertions |-> batch.insertions,
     block_batch |-> EmptyBatch,
     block_size |-> 0,
     block_count |-> 0,
     transaction_batch |-> EmptyBatch,
     transaction_size |-> 0]

IterIsEmpty(w) == w.deletions = <<>> /\ w.insertions = <<>>

write_next_value(w) ==
    IF w.deletions # <<>>
    THEN [w EXCEPT !.deletions = Tail(@),
                   !.block_size = @ + serialized_size(Head(w.deletions)),
                   !.block_batch = add_delete(@, Head(w.deletions))]
    ELSE LET kv == Head(w.insertions)
         IN  [w EXCEPT !.insertions = Tail(@),
                       !.block_size = @ + serialized_size(kv[1]) + serialized_size(kv[2]),
                       !.block_batch = add_insert(@, kv[1], kv[2])]

next_batch_size(w) ==
    IF w.deletions # <<>>
    THEN w.block_size + serialized_size(Head(w.deletions))
           + get_uleb128_size(Len(w.block_batch.deletions) + 1)
           + get_uleb128_size(Len(w.block_batch.insertions))
    ELSE w.block_size + serialized_size(Head(w.insertions)[1])
           + serialized_size(Head(w.insertions)[2])
           + get_uleb128_size(Len(w.block_batch.deletions))
           + get_uleb128_size(Len(w.block_batch.insertions) + 1)

FlushDecision(w, lim) ==
    IF IterIsEmpty(w) \/ BatchLen(w.transaction_batch) = lim.max_batch_size - 1
    THEN [block_flush |-> TRUE, transaction_flush |-> TRUE]
    ELSE LET next_block_size == next_batch_size(w)
             next_transaction_size == w.transaction_size + next_block_size + key_len
             transaction_flush == next_transaction_size > lim.max_batch_total_size
         IN  [block_flush |-> transaction_flush
                               \/ BatchLen(w.block_batch) = lim.max_batch_size - 2
                               \/ next_block_size > max_block_size(lim),
              transaction_flush |-> transaction_flush]

(* A block flush that numbers the blocks from 1. *)
BlockFlush_FromOne(w) ==
    LET size == w.block_size + overhead_size(w.block_batch)
        value == BcsBatch(w.block_batch)
    IN  [w EXCEPT !.block_batch = EmptyBatch,
                  !.transaction_batch = add_insert(@, BlockKey(w.block_count + 1), value),
                  !.block_count = @ + 1,
                  !.transaction_size = @ + size + key_len,
                  !.block_size = 0]

(* A block flush that stores every block under the key of block 0. *)
BlockFlush_SameKey(w) ==
    LET size == w.block_size + overhead_size(w.block_batch)
        value == BcsBatch(w.block_batch)
    IN  [w EXCEPT !.block_batch = EmptyBatch,
                  !.transaction_batch = add_insert(@, BlockKey(0), value),
                  !.block_count = @ + 1,
                  !.transaction_size = @ + size + key_len,
                  !.block_size = 0]

BlockFlush(w) ==
    LET size == w.block_size + overhead_size(w.block_batch)
        value == BcsBatch(w.block_batch)
    IN  [w EXCEPT !.block_batch = EmptyBatch,
                  !.transaction_batch = add_insert(@, BlockKey(w.block_count), value),
                  !.block_count = @ + 1,
                  !.transaction_size = @ + size + key_len,
                  !.block_size = 0]

WriteJournalIteration(w0, lim) ==
    LET w == write_next_value(w0)
        d == FlushDecision(w, lim)
        w1 == IF d.block_flush THEN BlockFlush(w) ELSE w
    IN  [w |-> w1, transaction_flush |-> d.transaction_flush]

(* A faulty loop, which goes on to the header commit with the last         *)
(* transaction still unwritten.                                            *)
RECURSIVE RunToWrite_HeaderEarly(_, _)
RunToWrite_HeaderEarly(w, lim) ==
    IF IterIsEmpty(w) THEN [w |-> w, at |-> "header"]
    ELSE LET r == WriteJournalIteration(w, lim)
         IN  IF r.transaction_flush
             THEN [w |-> r.w, at |-> IF IterIsEmpty(r.w) THEN "header" ELSE "flush"]
             ELSE RunToWrite_HeaderEarly(r.w, lim)

RECURSIVE RunToWrite(_, _)
RunToWrite(w, lim) ==
    IF IterIsEmpty(w) THEN [w |-> w, at |-> "header"]
    ELSE LET r == WriteJournalIteration(w, lim)
         IN  IF r.transaction_flush THEN [w |-> r.w, at |-> "flush"]
             ELSE RunToWrite(r.w, lim)

AfterFlush(w) == [w EXCEPT !.transaction_batch = EmptyBatch, !.transaction_size = 0]

(* A feasibility test with strict comparisons. *)
is_fastpath_feasible_Strict(batch, lim) ==
    BatchLen(batch) < lim.max_batch_size /\ BatchNumBytes(batch) < lim.max_batch_total_size

is_fastpath_feasible(batch, lim) ==
    BatchLen(batch) <= lim.max_batch_size /\ BatchNumBytes(batch) <= lim.max_batch_total_size

(***************************************************************************)
(* The decisions of write_batch, write_journal and                         *)
(* coherently_resolve_journal.                                             *)
(***************************************************************************)
(* A faulty write_batch, which enters the slow path without testing        *)
(* has_exclusive_access.                                                   *)
WriteBatchPath_NoExclusivityCheck(batch, has_exclusive_access) ==
    IF is_fastpath_feasible(batch, Limits) THEN "fast" ELSE "journal"

WriteBatchPath(batch, has_exclusive_access) ==
    IF is_fastpath_feasible(batch, Limits) THEN "fast"
    ELSE IF ~has_exclusive_access THEN "refuse"
    ELSE "journal"

(* A faulty header commit, which records one block more than was written.  *)
HeaderBatch_OneTooMany(block_count) ==
    add_insert(EmptyBatch, HeaderKey, JournalHeaderBytes(block_count + 1))

HeaderBatch(block_count) ==
    add_insert(EmptyBatch, HeaderKey, JournalHeaderBytes(block_count))

(* Faulty resolution steps, which the properties have to tell from the     *)
(* code: one deletes the header with the first block resolved, one keeps   *)
(* the block entry it has applied, one rewrites the header with the count  *)
(* it read instead of the decremented one.                                 *)
ResolveStepBatch_DropsHeader(block, block_count) ==
    add_delete(add_delete(block, BlockKey(block_count - 1)), HeaderKey)

ResolveStepBatch_KeepsBlock(block, block_count) ==
    IF block_count - 1 > 0
    THEN add_insert(block, HeaderKey, JournalHeaderBytes(block_count - 1))
    ELSE add_delete(block, HeaderKey)

ResolveStepBatch_StaleHeader(block, block_count) ==
    LET b == add_delete(block, BlockKey(block_count - 1))
    IN  IF block_count - 1 > 0
        THEN add_insert(b, HeaderKey, JournalHeaderBytes(block_count))
        ELSE add_delete(b, HeaderKey)

ResolveStepBatch(block, block_count) ==
    LET b == add_delete(block, BlockKey(block_count - 1))
    IN  IF block_count - 1 > 0
        THEN add_insert(b, HeaderKey, JournalHeaderBytes(block_count - 1))
        ELSE add_delete(b, HeaderKey)

ReadJournalHeader(db) ==
    IF ~Has(db, HeaderKey) THEN [present |-> FALSE, ok |-> TRUE, block_count |-> 0]
    ELSE LET h == BcsParseHeader(db[HeaderKey])
         IN  [present |-> TRUE, ok |-> h.ok, block_count |-> h.block_count]

(* A faulty block read, which takes the block of index 0 first. *)
ReadJournalBlock_Lowest(db, block_count) ==
    LET key == BlockKey(0)
    IN  IF ~Has(db, key) THEN [result |-> "FailureToRetrieveJournalBlock", batch |-> EmptyBatch]
        ELSE LET p == BcsParseBatch(db[key])
             IN  IF p.ok THEN [result |-> "Ok", batch |-> p.batch]
                 ELSE [result |-> "BcsError", batch |-> EmptyBatch]

ReadJournalBlock(db, block_count) ==
    LET key == BlockKey(block_count - 1)
    IN  IF ~Has(db, key) THEN [result |-> "FailureToRetrieveJournalBlock", batch |-> EmptyBatch]
        ELSE LET p == BcsParseBatch(db[key])
             IN  IF p.ok THEN [result |-> "Ok", batch |-> p.batch]
                 ELSE [result |-> "BcsError", batch |-> EmptyBatch]

(***************************************************************************)
(* The user-visible state: the keys outside the journal tag.               *)
(***************************************************************************)
UserView(db) == [k \in {x \in DOMAIN db : x # <<>> /\ x[1] >= MIN_VIEW_TAG} |-> db[k]]

(***************************************************************************)
(* The inputs: four user keys, two values, and a list of batches of which  *)
(* the first NumBatches are submitted.                                     *)
(***************************************************************************)
K11 == <<1, 1>>
K12 == <<1, 2>>
K21 == <<2, 1>>
K22 == <<2, 2>>
VA == <<7>>
VB == <<8>>

AllBatches ==
    << << Delete(K22), Put(K11, VA), Put(K12, VA), Put(K21, VA) >>,
       << DeletePrefix(<<1>>), Put(K21, VB), Put(K22, VB) >>,
       << Put(K11, VB) >>,
       << Put(K11, VB), Put(K12, VB), Put(K21, VB), Put(K22, VB), Delete(K21) >>,
       << Delete(K11), Delete(K12), Delete(K21), Delete(K22) >>,
       << Put(K11, VA), Delete(K11), Put(K12, VB) >> >>

NumBatches == 2

Batches ==
    {AllBatches[i] : i \in 1..(IF NumBatches < Len(AllBatches) THEN NumBatches
                               ELSE Len(AllBatches))}

Handles == {1, 2}

(***************************************************************************)
(* The state.  db is the inner store of one root key.  For each store      *)
(* handle: pc is the position of its call, mode its has_exclusive_access,  *)
(* loc the locals of the call, ret the result of its last call.  gh, tr,   *)
(* cj, rt and obs record history for the properties.                       *)
(***************************************************************************)
VARIABLES db, pc, mode, loc, ret, gh, tr, cj, rt, obs, crashes, failures, ov,
          rdb, st, rkw, wby, nw, out, pk, disk, made, nsout, jk, cb, oc, dl

(* The journaling store of one root key. *)
jvars == <<db, pc, mode, loc, ret, gh, tr, cj, rt, obs, crashes, failures, ov>>

(* The RocksDB database of one namespace and its store handles. *)
rvars == <<rdb, st, rkw, wby, nw, out>>

(* One write_batch of a journaling store over an inner store with given    *)
(* limits.                                                                 *)
pvars == <<pk>>

(* The namespace directories under the storage path. *)
nvars == <<disk, made, nsout>>

(* The journal keys computed so far, and the calls of a client on its      *)
(* remote validator nodes.                                                 *)
cvars == <<jk, cb, oc, dl>>

vars == <<db, pc, mode, loc, ret, gh, tr, cj, rt, obs, crashes, failures, ov,
          rdb, st, rkw, wby, nw, out, pk, disk, made, nsout, jk, cb, oc, dl>>

LocInit == [w |-> WriteJournalInit(EmptyBatch), pending |-> EmptyBatch, header |-> 0]

GhInit ==
    [call |-> "none", ops |-> <<>>, pre |-> <<>>, post |-> <<>>, batch |-> EmptyBatch,
     n0 |-> 0, writes |-> 0, alone |-> TRUE, served |-> "none"]

TrOff == [phase |-> "off", pre |-> <<>>, post |-> <<>>, committed |-> FALSE]

CjOff == [valid |-> FALSE, batch |-> EmptyBatch]

RtOff == [phase |-> "off", target |-> <<>>, interrupted |-> FALSE]

(* No write_batch has been called over a pending journal. *)
OvOff == [on |-> FALSE, want |-> <<>>]

ObsInit == [view |-> <<>>, during |-> {}, header |-> FALSE, fresh |-> FALSE]

(* A store handle of the RocksDB database that has not been opened. *)
RHandles == {1, 2}

StoreClosed ==
    [open |-> FALSE, start_key |-> <<>>, flag |-> 0, exclusive |-> FALSE,
     pending |-> 0, write_root_key |-> FALSE, wrote |-> FALSE]

OutNone == [op |-> "none", h |-> 0, arg |-> <<>>, result |-> "none", val |-> <<>>]

PkOff ==
    [on |-> FALSE, lim |-> <<>>, ops |-> <<>>, at |-> "off", w |-> <<>>, d |-> <<>>,
     header |-> 0, kind |-> "none", handed |-> <<>>, path |-> "none", ret |-> "none"]

(***************************************************************************)
(* The namespaces of a RocksDB storage path.  A namespace is a string,     *)
(* here the sequence of its ASCII codes; each namespace is one directory   *)
(* under the path.                                                         *)
(***************************************************************************)
is_ascii_alphanumeric(c) == c \in (48..57) \cup (65..90) \cup (97..122)

(* A faulty validation, which lets the character '-' through. *)
check_namespace_DashAllowed(namespace) ==
    IF \A i \in 1..Len(namespace) :
           is_ascii_alphanumeric(namespace[i]) \/ namespace[i] = 95 \/ namespace[i] = 45
    THEN "Ok" ELSE "InvalidNamespace"

check_namespace(namespace) ==
    IF \A i \in 1..Len(namespace) :
           is_ascii_alphanumeric(namespace[i]) \/ namespace[i] = 95
    THEN "Ok" ELSE "InvalidNamespace"

(* The names "", "a", "B_", "a-" and "..". *)
NsNames == {<<>>, <<97>>, <<66, 95>>, <<97, 45>>, <<46, 46>>}

(* The storage path: whether it exists, the directories in it and whether  *)
(* it holds entries that are not directories.                              *)
DiskInit == [base |-> TRUE, dirs |-> {}, files |-> FALSE]

NsOutNone ==
    [op |-> "none", ns |-> <<>>, result |-> "none", found |-> FALSE, names |-> {},
     before |-> DiskInit]

(* path_buf.push(namespace) followed by Path::exists: pushing the empty     *)
(* name gives the storage path itself.                                     *)
PathExists(d, namespace) == d.base /\ (namespace = <<>> \/ namespace \in d.dirs)

(* std::fs::remove_dir_all of the pushed path. *)
RemoveDirAll(d, namespace) ==
    IF ~PathExists(d, namespace) THEN [result |-> "FsError", disk |-> d]
    ELSE IF namespace = <<>>
         THEN [result |-> "Ok", disk |-> [base |-> FALSE, dirs |-> {}, files |-> FALSE]]
         ELSE [result |-> "Ok", disk |-> [d EXCEPT !.dirs = @ \ {namespace}]]

(* RocksDbStoreInternal::build up to the opening of the database: the      *)
(* directory is created when missing and the database files are written    *)
(* into it.                                                                *)
build(d, namespace) ==
    IF check_namespace(namespace) # "Ok" THEN [result |-> "InvalidNamespace", disk |-> d]
    ELSE IF PathExists(d, namespace)
         THEN [result |-> "Ok",
               disk |-> IF namespace = <<>> THEN [d EXCEPT !.files = TRUE] ELSE d]
         ELSE IF namespace = <<>>
              THEN [result |-> "Ok", disk |-> [base |-> TRUE, dirs |-> {}, files |-> TRUE]]
              ELSE IF ~d.base THEN [result |-> "FsError", disk |-> d]
                   ELSE [result |-> "Ok", disk |-> [d EXCEPT !.dirs = @ \cup {namespace}]]

list_all(d) ==
    IF ~d.base THEN [result |-> "FsError", names |-> {}]
    ELSE IF d.files THEN [result |-> "NonDirectoryNamespace", names |-> {}]
         ELSE [result |-> "Ok", names |-> d.dirs]

delete_all(d) ==
    IF list_all(d).result # "Ok" THEN [result |-> list_all(d).result, disk |-> d]
    ELSE [result |-> "Ok", disk |-> [d EXCEPT !.dirs = {}]]

exists(d, namespace) ==
    IF check_namespace(namespace) # "Ok" THEN [result |-> "InvalidNamespace", found |-> FALSE]
    ELSE [result |-> "Ok", found |-> PathExists(d, namespace)]

create(d, namespace) ==
    IF check_namespace(namespace) # "Ok" THEN [result |-> "InvalidNamespace", disk |-> d]
    ELSE IF PathExists(d, namespace) THEN [result |-> "StoreAlreadyExists", disk |-> d]
         ELSE [result |-> "Ok",
               disk |-> [d EXCEPT !.base = TRUE,
                                  !.dirs = IF namespace = <<>> THEN @ ELSE @ \cup {namespace}]]

delete(d, namespace) ==
    IF check_namespace(namespace) # "Ok" THEN [result |-> "InvalidNamespace", disk |-> d]
    ELSE RemoveDirAll(d, namespace)

(***************************************************************************)
(* The calls of a client on remote validator nodes: no call made yet.      *)
(***************************************************************************)
CbNone == [called |-> FALSE, required |-> {}, blob_ids |-> <<>>, result |-> "none"]

OcIdle ==
    [at |-> "idle", kind |-> "none", signed |-> FALSE, delivery |-> "none",
     sent |-> <<>>, received |-> <<>>, lite |-> "none", result |-> "none"]

DlIdle ==
    [at |-> "idle", blob_ids |-> <<>>, validators |-> {}, tasks |-> <<>>, blobs |-> <<>>,
     result |-> "none"]

Init ==
    /\ db = <<>>
    /\ pc = [h \in Handles |-> "closed"]
    /\ mode = [h \in Handles |-> FALSE]
    /\ loc = [h \in Handles |-> LocInit]
    /\ ret = [h \in Handles |-> "none"]
    /\ gh = [h \in Handles |-> GhInit]
    /\ tr = TrOff
    /\ cj = CjOff
    /\ rt = RtOff
    /\ obs = [h \in Handles |-> ObsInit]
    /\ crashes = 0
    /\ failures = 0
    /\ ov = OvOff
    /\ rdb = <<>>
    /\ st = [h \in RHandles |-> StoreClosed]
    /\ rkw = [f \in RHandles |-> FALSE]
    /\ wby = <<>>
    /\ nw = 0
    /\ out = OutNone
    /\ pk = PkOff
    /\ disk = DiskInit
    /\ made = {}
    /\ nsout = NsOutNone
    /\ jk = {}
    /\ cb = CbNone
    /\ oc = OcIdle
    /\ dl = DlIdle

Busy(h) == pc[h] \notin {"closed", "idle"}

OthersQuiet(h) == \A o \in Handles \ {h} : ~Busy(o)

(***************************************************************************)
(* History kept at the start and at the end of a call.                     *)
(***************************************************************************)
HeaderCount(d) == ReadJournalHeader(d).block_count

Served(h) ==
    IF gh[h].served # "none" THEN gh[h].served
    ELSE IF Has(db, HeaderKey) THEN "journal" ELSE "clean"

GhCall(h, kind, ops, batch) ==
    [o \in Handles |->
        IF o = h
        THEN [call |-> kind,
              ops |-> ops,
              pre |-> UserView(db),
              post |-> UserView(ApplyOperations(db, ops)),
              batch |-> batch,
              n0 |-> HeaderCount(db),
              writes |-> 0,
              alone |-> OthersQuiet(h),
              served |-> IF kind = "write" THEN Served(h) ELSE gh[h].served]
        ELSE IF Busy(o) THEN [gh[o] EXCEPT !.alone = FALSE]
        ELSE gh[o]]

GhWrote(h) == [gh EXCEPT ![h].writes = @ + 1]

TrDone(h) ==
    IF gh[h].call = "clear" /\ tr.phase = "interrupted" THEN [tr EXCEPT !.phase = "recovered"]
    ELSE IF gh[h].call = "write" /\ tr.phase = "writing" THEN TrOff
    ELSE tr

TrInterrupted(h) ==
    IF gh[h].call = "write" /\ tr.phase = "writing" THEN [tr EXCEPT !.phase = "interrupted"]
    ELSE tr

RtDone(h) ==
    IF gh[h].call = "clear" /\ rt.phase = "active" THEN [rt EXCEPT !.phase = "done"] ELSE rt

RtInterrupted(h) ==
    IF gh[h].call = "clear" /\ rt.phase = "active" THEN [rt EXCEPT !.interrupted = TRUE]
    ELSE rt

(***************************************************************************)
(* Replay(d): the store an uninterrupted resolution of the journal of d    *)
(* ends in.                                                                *)
(***************************************************************************)
RECURSIVE ResolveFrom(_, _)
ResolveFrom(d, block_count) ==
    IF block_count = 0 THEN d
    ELSE LET b == ReadJournalBlock(d, block_count)
         IN  IF b.result # "Ok" THEN d
             ELSE ResolveFrom(InnerWriteBatch(d, ResolveStepBatch(b.batch, block_count)),
                              block_count - 1)

Replay(d) ==
    LET h == ReadJournalHeader(d)
    IN  IF ~h.present \/ ~h.ok THEN d ELSE ResolveFrom(d, h.block_count)

(***************************************************************************)
(* Opening, cloning and dropping a store handle.                           *)
(***************************************************************************)
Opened(h, exclusive) ==
    /\ pc' = [pc EXCEPT ![h] = "idle"]
    /\ mode' = [mode EXCEPT ![h] = exclusive]
    /\ loc' = [loc EXCEPT ![h] = LocInit]
    /\ ret' = [ret EXCEPT ![h] = "none"]
    /\ gh' = [gh EXCEPT ![h] = GhInit]
    /\ obs' = [obs EXCEPT ![h] = ObsInit]
    /\ UNCHANGED <<db, tr, cj, rt, crashes, failures>>
    /\ UNCHANGED <<rvars, pvars, nvars, cvars, ov>>

OpenShared(h) ==
    /\ pc[h] = "closed"
    /\ Opened(h, FALSE)

OpenExclusive(h) ==
    /\ pc[h] = "closed"
    /\ Opened(h, TRUE)

NewStore(h) ==
    /\ pc[h] = "closed"
    /\ Opened(h, FALSE)

Clone(h, o) ==
    /\ pc[h] # "closed"
    /\ pc[o] = "closed"
    /\ Opened(o, mode[h])

Drop(h) ==
    /\ pc[h] = "idle"
    /\ pc' = [pc EXCEPT ![h] = "closed"]
    /\ mode' = [mode EXCEPT ![h] = FALSE]
    /\ loc' = [loc EXCEPT ![h] = LocInit]
    /\ ret' = [ret EXCEPT ![h] = "none"]
    /\ gh' = [gh EXCEPT ![h] = GhInit]
    /\ obs' = [obs EXCEPT ![h] = ObsInit]
    /\ UNCHANGED <<db, tr, cj, rt, crashes, failures>>
    /\ UNCHANGED <<rvars, pvars, nvars, cvars, ov>>

(***************************************************************************)
(* write_batch: the call up to its first backend write.                    *)
(***************************************************************************)
WriteBatch(h, ops) ==
    /\ pc[h] = "idle"
    /\ LET batch == from_batch(db, ops)
           path == WriteBatchPath(batch, mode[h])
           r == RunToWrite(WriteJournalInit(batch), Limits)
       IN  /\ pc' = [pc EXCEPT ![h] =
                        CASE path = "fast" -> "fast"
                          [] path = "refuse" -> "idle"
                          [] OTHER -> r.at]
           /\ loc' = [loc EXCEPT ![h] =
                        CASE path = "fast" -> [LocInit EXCEPT !.pending = batch]
                          [] path = "refuse" -> LocInit
                          [] OTHER -> [LocInit EXCEPT !.w = r.w]]
           /\ ret' = [ret EXCEPT ![h] =
                        IF path = "refuse" THEN "JournalRequiresExclusiveAccess" ELSE "none"]
           /\ gh' = GhCall(h, "write", ops, batch)
           /\ tr' = IF path = "journal" /\ ~Has(db, HeaderKey) /\ OthersQuiet(h)
                    THEN [phase |-> "writing", pre |-> UserView(db),
                          post |-> UserView(ApplyOperations(db, ops)), committed |-> FALSE]
                    ELSE TrOff
           /\ cj' = IF path = "refuse" /\ Has(db, HeaderKey) THEN cj ELSE CjOff
           /\ ov' = CASE path = "refuse" -> ov
                      [] Has(db, HeaderKey) ->
                           [on |-> TRUE,
                            want |-> UserView(ApplyOperations(Replay(db), ops))]
                      [] OTHER -> OvOff
    /\ rt' = RtOff
    /\ obs' = [obs EXCEPT ![h] = ObsInit]
    /\ UNCHANGED <<db, mode, crashes, failures>>
    /\ UNCHANGED <<rvars, pvars, nvars, cvars>>

FastWrite(h) ==
    /\ pc[h] = "fast"
    /\ db' = InnerWriteBatch(db, loc[h].pending)
    /\ pc' = [pc EXCEPT ![h] = "idle"]
    /\ ret' = [ret EXCEPT ![h] = "Ok"]
    /\ gh' = GhWrote(h)
    /\ UNCHANGED <<mode, loc, tr, cj, rt, obs, crashes, failures>>
    /\ UNCHANGED <<rvars, pvars, nvars, cvars, ov>>

(***************************************************************************)
(* write_journal: one transaction of blocks per backend write, then the    *)
(* header.                                                                 *)
(***************************************************************************)
FlushTransaction(h) ==
    /\ pc[h] = "flush"
    /\ db' = InnerWriteBatch(db, loc[h].w.transaction_batch)
    /\ LET r == RunToWrite(AfterFlush(loc[h].w), Limits)
       IN  /\ pc' = [pc EXCEPT ![h] = r.at]
           /\ loc' = [loc EXCEPT ![h].w = r.w]
    /\ gh' = GhWrote(h)
    /\ cj' = IF Has(db, HeaderKey) THEN CjOff ELSE cj
    /\ UNCHANGED <<mode, ret, tr, rt, obs, crashes, failures>>
    /\ UNCHANGED <<rvars, pvars, nvars, cvars, ov>>

CommitHeader(h) ==
    /\ pc[h] = "header"
    /\ LET block_count == loc[h].w.block_count
       IN  IF block_count > 0
           THEN /\ db' = InnerWriteBatch(db, HeaderBatch(block_count))
                /\ pc' = [pc EXCEPT ![h] = "resolve"]
                /\ loc' = [loc EXCEPT ![h].header = block_count]
                /\ ret' = ret
                /\ gh' = GhWrote(h)
                /\ tr' = IF tr.phase = "writing" THEN [tr EXCEPT !.committed = TRUE] ELSE tr
                /\ cj' = [valid |-> TRUE, batch |-> gh[h].batch]
           ELSE /\ pc' = [pc EXCEPT ![h] = "idle"]
                /\ ret' = [ret EXCEPT ![h] = "Ok"]
                /\ UNCHANGED <<db, loc, gh, tr, cj>>
    /\ UNCHANGED <<mode, rt, obs, crashes, failures>>
    /\ UNCHANGED <<rvars, pvars, nvars, cvars, ov>>

(***************************************************************************)
(* coherently_resolve_journal: read the last block, then write its         *)
(* operations, its deletion and the new header in one backend write.       *)
(***************************************************************************)
ResolveRead(h) ==
    /\ pc[h] = "resolve"
    /\ LET r == ReadJournalBlock(db, loc[h].header)
       IN  IF r.result = "Ok"
           THEN /\ loc' = [loc EXCEPT ![h].pending = ResolveStepBatch(r.batch, loc[h].header),
                                      ![h].header = @ - 1]
                /\ pc' = [pc EXCEPT ![h] = "resolve_write"]
                /\ ret' = ret
           ELSE /\ pc' = [pc EXCEPT ![h] = "idle"]
                /\ ret' = [ret EXCEPT ![h] = r.result]
                /\ loc' = loc
    /\ UNCHANGED <<db, mode, gh, tr, cj, rt, obs, crashes, failures>>
    /\ UNCHANGED <<rvars, pvars, nvars, cvars, ov>>

ResolveWrite(h) ==
    /\ pc[h] = "resolve_write"
    /\ db' = InnerWriteBatch(db, loc[h].pending)
    /\ gh' = GhWrote(h)
    /\ IF loc[h].header > 0
       THEN /\ pc' = [pc EXCEPT ![h] = "resolve"]
            /\ UNCHANGED <<ret, tr, rt>>
       ELSE /\ pc' = [pc EXCEPT ![h] = "idle"]
            /\ ret' = [ret EXCEPT ![h] = "Ok"]
            /\ tr' = TrDone(h)
            /\ rt' = RtDone(h)
    /\ UNCHANGED <<mode, loc, cj, obs, crashes, failures>>
    /\ UNCHANGED <<rvars, pvars, nvars, cvars, ov>>

(***************************************************************************)
(* clear_journal: read the header and resolve the journal it records.      *)
(***************************************************************************)
ClearJournal(h) ==
    /\ pc[h] = "idle"
    /\ LET hd == ReadJournalHeader(db)
           found == hd.present /\ hd.ok /\ hd.block_count > 0
       IN  /\ pc' = [pc EXCEPT ![h] = IF found THEN "resolve" ELSE "idle"]
           /\ loc' = [loc EXCEPT ![h] = [LocInit EXCEPT !.header = hd.block_count]]
           /\ ret' = [ret EXCEPT ![h] =
                        IF found THEN "none" ELSE IF hd.ok THEN "Ok" ELSE "BcsError"]
           /\ gh' = GhCall(h, "clear", <<>>, EmptyBatch)
           /\ tr' = IF ~found /\ tr.phase = "interrupted" THEN [tr EXCEPT !.phase = "recovered"]
                    ELSE IF tr.phase = "writing" THEN TrOff
                    ELSE tr
           /\ rt' = IF found
                    THEN (IF rt.phase = "active" THEN rt
                          ELSE [phase |-> "active", target |-> Replay(db),
                                interrupted |-> FALSE])
                    ELSE (IF rt.phase = "done" THEN rt ELSE RtOff)
    /\ obs' = [obs EXCEPT ![h] = ObsInit]
    /\ UNCHANGED <<db, mode, cj, crashes, failures>>
    /\ UNCHANGED <<rvars, pvars, nvars, cvars, ov>>

(***************************************************************************)
(* A read through the store goes to the inner store as it is.              *)
(***************************************************************************)
Read(h) ==
    /\ pc[h] = "idle"
    /\ obs' = [obs EXCEPT ![h] =
                 [view |-> UserView(db),
                  during |-> {[pre |-> gh[o].pre, post |-> gh[o].post] :
                                o \in {x \in Handles \ {h} :
                                         Busy(x) /\ gh[x].call = "write" /\ gh[x].alone}},
                  header |-> Has(db, HeaderKey),
                  fresh |-> gh[h].served = "none"]]
    /\ gh' = [gh EXCEPT ![h].served = Served(h)]
    /\ UNCHANGED <<db, pc, mode, loc, ret, tr, cj, rt, crashes, failures>>
    /\ UNCHANGED <<rvars, pvars, nvars, cvars, ov>>

(***************************************************************************)
(* The environment: a backend write that fails, and a crash of the         *)
(* process that holds the handles.                                         *)
(***************************************************************************)
InnerFailure(h) ==
    /\ pc[h] \in {"fast", "flush", "header", "resolve_write"}
    /\ crashes + failures < MaxFaults
    /\ failures' = failures + 1
    /\ pc' = [pc EXCEPT ![h] = "idle"]
    /\ ret' = [ret EXCEPT ![h] = "BackendFailure"]
    /\ tr' = TrInterrupted(h)
    /\ rt' = RtInterrupted(h)
    /\ UNCHANGED <<db, mode, loc, gh, cj, obs, crashes>>
    /\ UNCHANGED <<rvars, pvars, nvars, cvars, ov>>

Crash ==
    /\ \E h \in Handles : Busy(h)
    /\ crashes + failures < MaxFaults
    /\ crashes' = crashes + 1
    /\ pc' = [h \in Handles |-> "closed"]
    /\ mode' = [h \in Handles |-> FALSE]
    /\ loc' = [h \in Handles |-> LocInit]
    /\ ret' = [h \in Handles |-> "none"]
    /\ gh' = [h \in Handles |-> GhInit]
    /\ obs' = [h \in Handles |-> ObsInit]
    /\ tr' = IF tr.phase = "writing" THEN [tr EXCEPT !.phase = "interrupted"] ELSE tr
    /\ rt' = IF rt.phase = "active" /\ (\E h \in Handles : Busy(h))
             THEN [rt EXCEPT !.interrupted = TRUE] ELSE rt
    /\ UNCHANGED <<db, cj, failures>>
    /\ UNCHANGED <<rvars, pvars, nvars, cvars, ov>>

(***************************************************************************)
(* Spec: one store handle at a time, with backend failures and crashes.    *)
(* SpecClones: an exclusive store and a clone of it, used concurrently.    *)
(***************************************************************************)
Next ==
    \/ OpenShared(1)
    \/ NewStore(1)
    \/ OpenExclusive(1)
    \/ Drop(1)
    \/ \E ops \in Batches : WriteBatch(1, ops)
    \/ FastWrite(1)
    \/ FlushTransaction(1)
    \/ CommitHeader(1)
    \/ ResolveRead(1)
    \/ ResolveWrite(1)
    \/ ClearJournal(1)
    \/ Read(1)
    \/ InnerFailure(1)
    \/ Crash

Spec == Init /\ [][Next]_vars

MaxCloneCalls == 1

CloneCall(h) == gh[h].call = "none" \/ MaxCloneCalls > 1

NextClones ==
    \/ OpenExclusive(1)
    \/ Clone(1, 2)
    \/ \E h \in Handles :
         \/ \E ops \in Batches : CloneCall(h) /\ WriteBatch(h, ops)
         \/ FastWrite(h)
         \/ FlushTransaction(h)
         \/ CommitHeader(h)
         \/ ResolveRead(h)
         \/ ResolveWrite(h)
         \/ Read(h)

SpecClones == Init /\ [][NextClones]_vars

(***************************************************************************)
(* The RocksDB store: every store of a namespace reads and writes the one  *)
(* key space of the namespace, its keys prefixed by its start_key.         *)
(***************************************************************************)
ROOT_KEY_DOMAIN == 0
STORED_ROOT_KEYS_PREFIX == 1

(* MAX_KEY_SIZE of RocksDB, scaled down. *)
MAX_KEY_SIZE == 3

check_key_size(key) == Len(key) <= MAX_KEY_SIZE

(* The smallest byte string above every string that starts with key; there *)
(* is none when every byte of key is 255.                                  *)
RECURSIVE get_upper_bound_option(_)
get_upper_bound_option(key) ==
    IF key = <<>> THEN [some |-> FALSE, bound |-> <<>>]
    ELSE IF key[Len(key)] = 255 THEN get_upper_bound_option(SubSeq(key, 1, Len(key) - 1))
    ELSE [some |-> TRUE,
          bound |-> [key EXCEPT ![Len(key)] = @ + 1]]

LexLeq(a, b) == a = b \/ LexLess(a, b)

(* The raw iterator: the keys of the database in bytewise order, seek      *)
(* positions it on the first key not below the prefix.                     *)
RawKeys(d) == SortKeys(DOMAIN d)

(* A seek that lands after a key equal to the prefix. *)
RECURSIVE Seek_PastEqual(_, _, _)
Seek_PastEqual(keys, i, prefix) ==
    IF i > Len(keys) \/ LexLess(prefix, keys[i]) THEN i
    ELSE Seek_PastEqual(keys, i + 1, prefix)

RECURSIVE Seek(_, _, _)
Seek(keys, i, prefix) ==
    IF i > Len(keys) \/ LexLeq(prefix, keys[i]) THEN i ELSE Seek(keys, i + 1, prefix)

RECURSIVE ScanKeys(_, _, _, _)
ScanKeys(keys, i, prefix, len) ==
    IF i > Len(keys) \/ ~IsPrefix(prefix, keys[i]) THEN <<>>
    ELSE <<SubSeq(keys[i], len + 1, Len(keys[i]))>> \o ScanKeys(keys, i + 1, prefix, len)

find_keys_by_prefix_internal(d, start_key, key_prefix) ==
    IF ~check_key_size(key_prefix) THEN [result |-> "KeyTooLong", keys |-> <<>>]
    ELSE LET prefix == start_key \o key_prefix
             keys == RawKeys(d)
         IN  [result |-> "Ok",
              keys |-> ScanKeys(keys, Seek(keys, 1, prefix), prefix, Len(prefix))]

RECURSIVE ScanKeyValues(_, _, _, _, _)
ScanKeyValues(d, keys, i, prefix, len) ==
    IF i > Len(keys) \/ ~IsPrefix(prefix, keys[i]) THEN <<>>
    ELSE << <<SubSeq(keys[i], len + 1, Len(keys[i])), d[keys[i]]>> >>
           \o ScanKeyValues(d, keys, i + 1, prefix, len)

find_key_values_by_prefix_internal(d, start_key, key_prefix) ==
    IF ~check_key_size(key_prefix) THEN [result |-> "KeyTooLong", key_values |-> <<>>]
    ELSE LET prefix == start_key \o key_prefix
             keys == RawKeys(d)
         IN  [result |-> "Ok",
              key_values |-> ScanKeyValues(d, keys, Seek(keys, 1, prefix), prefix,
                                           Len(prefix))]

(* The indices of the keys that pass the key_may_exist filter; may is the  *)
(* set of full keys for which the filter answers true.                     *)
RECURSIVE FilterIndices(_, _, _, _)
FilterIndices(start_key, keys, i, may) ==
    IF i > Len(keys) THEN <<>>
    ELSE (IF (start_key \o keys[i]) \in may THEN <<i>> ELSE <<>>)
             \o FilterIndices(start_key, keys, i + 1, may)

(* Results stored at the position in the filtered list. *)
ZipResults_ByPosition(size, indices, values_red) ==
    [i \in 1..size |-> IF i <= Len(values_red) THEN values_red[i] ELSE FALSE]

(* results[index] = value.is_some() for each pair of indices zipped with    *)
(* values_red; every other position keeps its initial false.                *)
ZipResults(size, indices, values_red) ==
    [i \in 1..size |->
        IF \E j \in 1..Len(indices) : indices[j] = i
        THEN values_red[CHOOSE j \in 1..Len(indices) : indices[j] = i]
        ELSE FALSE]

contains_keys_internal(d, start_key, keys, may) ==
    IF \E i \in 1..Len(keys) : ~check_key_size(keys[i])
    THEN [result |-> "KeyTooLong", values |-> <<>>]
    ELSE LET indices == FilterIndices(start_key, keys, 1, may)
             keys_red == [j \in 1..Len(indices) |-> start_key \o keys[indices[j]]]
             values_red == [j \in 1..Len(keys_red) |-> Has(d, keys_red[j])]
         IN  [result |-> "Ok", values |-> ZipResults(Len(keys), indices, values_red)]

read_multi_values_bytes_internal(d, start_key, keys) ==
    IF \E i \in 1..Len(keys) : ~check_key_size(keys[i])
    THEN [result |-> "KeyTooLong", values |-> <<>>]
    ELSE LET full_keys == [i \in 1..Len(keys) |-> start_key \o keys[i]]
         IN  [result |-> "Ok",
              values |-> [i \in 1..Len(full_keys) |-> ReadValue(d, full_keys[i])]]

(* read_value_bytes and contains_key of one key; may is the answer of      *)
(* key_may_exist.                                                          *)
read_value_bytes(d, start_key, key) ==
    IF ~check_key_size(key) THEN [result |-> "KeyTooLong", value |-> NoValue]
    ELSE [result |-> "Ok", value |-> ReadValue(d, start_key \o key)]

contains_key(d, start_key, key, may) ==
    IF ~check_key_size(key) THEN [result |-> "KeyTooLong", value |-> FALSE]
    ELSE IF ~may THEN [result |-> "Ok", value |-> FALSE]
    ELSE [result |-> "Ok", value |-> Has(d, start_key \o key)]

(* delete_range removes the keys from full_key1 up to, not including,      *)
(* full_key2.                                                              *)
delete_range(d, full_key1, full_key2) ==
    [k \in {x \in DOMAIN d : ~(LexLeq(full_key1, x) /\ LexLess(x, full_key2))} |-> d[k]]

(* An inner batch whose delete_range has an inclusive upper bound. *)
RECURSIVE RocksInnerBatch_InclusiveBound(_, _, _)
RocksInnerBatch_InclusiveBound(d, start_key, operations) ==
    IF operations = <<>> THEN d
    ELSE LET operation == Head(operations)
             full_key == start_key \o operation.key
             bound == get_upper_bound_option(full_key).bound
             next == IF operation.op = "Delete" THEN DbDelete(d, full_key)
                     ELSE IF operation.op = "Put" THEN DbPut(d, full_key, operation.value)
                     ELSE DbDelete(delete_range(d, full_key, bound), bound)
         IN  RocksInnerBatch_InclusiveBound(next, start_key, Tail(operations))

RECURSIVE RocksInnerBatch(_, _, _)
RocksInnerBatch(d, start_key, operations) ==
    IF operations = <<>> THEN d
    ELSE LET operation == Head(operations)
             full_key == start_key \o operation.key
             next == IF operation.op = "Delete" THEN DbDelete(d, full_key)
                     ELSE IF operation.op = "Put" THEN DbPut(d, full_key, operation.value)
                     ELSE delete_range(d, full_key, get_upper_bound_option(full_key).bound)
         IN  RocksInnerBatch(next, start_key, Tail(operations))

RootKeyEntry(start_key) == [start_key EXCEPT ![1] = STORED_ROOT_KEYS_PREFIX]

(* A faulty write, which has written the operations in front of the key    *)
(* that is too long when it returns KeyTooLong.                            *)
write_batch_internal_WritesUpToError(d, start_key, operations, write_root_key) ==
    IF \E i \in 1..Len(operations) : ~check_key_size(operations[i].key)
    THEN LET first == CHOOSE i \in 1..Len(operations) :
                          /\ ~check_key_size(operations[i].key)
                          /\ \A j \in 1..(i - 1) : check_key_size(operations[j].key)
         IN  [result |-> "KeyTooLong",
              db |-> RocksInnerBatch(d, start_key, SubSeq(operations, 1, first - 1))]
    ELSE LET inner_batch == RocksInnerBatch(d, start_key, operations)
         IN  [result |-> "Ok",
              db |-> IF write_root_key
                     THEN DbPut(inner_batch, RootKeyEntry(start_key), <<>>)
                     ELSE inner_batch]

(* The database that write_batch_internal hands to db.write, or KeyTooLong *)
(* before anything is written.                                             *)
write_batch_internal(d, start_key, operations, write_root_key) ==
    IF \E i \in 1..Len(operations) : ~check_key_size(operations[i].key)
    THEN [result |-> "KeyTooLong", db |-> d]
    ELSE LET inner_batch == RocksInnerBatch(d, start_key, operations)
         IN  [result |-> "Ok",
              db |-> IF write_root_key
                     THEN DbPut(inner_batch, RootKeyEntry(start_key), <<>>)
                     ELSE inner_batch]

(* list_root_keys: a store whose start_key is the index prefix lists every *)
(* key below it.                                                           *)
list_root_keys(d) == find_keys_by_prefix_internal(d, <<STORED_ROOT_KEYS_PREFIX>>, <<>>).keys

(***************************************************************************)
(* The store handles of one RocksDB namespace.                             *)
(***************************************************************************)
RootKeys == {<<>>, <<5>>}

(* The number of write_batch calls of one run. *)
MaxRocksWrites == 2

RocksBatches ==
    << <<Put(<<6>>, VA), Put(<<7>>, VB)>>,
       <<Put(<<6, 255>>, VB), Delete(<<5, 7>>)>>,
       <<DeletePrefix(<<6>>)>>,
       <<DeletePrefix(<<>>)>>,
       <<Put(<<6>>, VA), Put(<<6, 6, 6, 6>>, VA)>> >>

RocksPrefixes == {<<>>, <<6>>, <<6, 6, 6, 6>>}

RocksKeyLists ==
    { <<<<5, 7>>, <<6, 255>>, <<5, 7>>>>, <<<<6>>, <<6, 6, 6, 6>>>> }

RootKeyOf(h) == Tail(st[h].start_key)

RocksQuiet == \A h \in RHandles : st[h].pending = 0

JournalIdle == UNCHANGED <<jvars, pvars, nvars, cvars>>

(* open_shared: a store on start_key = ROOT_KEY_DOMAIN ++ root_key with a   *)
(* root_key_written flag of its own.                                       *)
open_shared(h, root_key, exclusive) ==
    /\ ~st[h].open
    /\ \A o \in RHandles : o < h => st[o].open
    /\ st' = [st EXCEPT ![h] = [open |-> TRUE,
                                start_key |-> <<ROOT_KEY_DOMAIN>> \o root_key,
                                flag |-> h,
                                exclusive |-> exclusive,
                                pending |-> 0,
                                write_root_key |-> FALSE,
                                wrote |-> FALSE]]
    /\ rkw' = [rkw EXCEPT ![h] = FALSE]
    /\ out' = [op |-> "open", h |-> h, arg |-> root_key, result |-> "Ok", val |-> <<>>]
    /\ UNCHANGED <<rdb, wby, nw>>
    /\ JournalIdle

RocksOpenShared(h, root_key) == open_shared(h, root_key, FALSE)

(* open_exclusive is open_shared. *)
RocksOpenExclusive(h, root_key) == open_shared(h, root_key, TRUE)

(* A clone of the store shares the executor and the root_key_written flag. *)
RocksClone(h, o) ==
    /\ st[h].open /\ ~st[o].open
    /\ st' = [st EXCEPT ![o] = [st[h] EXCEPT !.pending = 0, !.write_root_key = FALSE,
                                             !.wrote = FALSE]]
    /\ out' = [op |-> "clone", h |-> o, arg |-> h, result |-> "Ok", val |-> <<>>]
    /\ UNCHANGED <<rdb, rkw, wby, nw>>
    /\ JournalIdle

(* write_batch up to the spawn: the flag is read and set before the write. *)
RocksWriteBatch(h, b) ==
    /\ st[h].open /\ st[h].pending = 0
    /\ nw < MaxRocksWrites
    /\ nw' = nw + 1
    /\ st' = [st EXCEPT ![h].pending = b,
                        ![h].write_root_key = ~rkw[st[h].flag]]
    /\ rkw' = [rkw EXCEPT ![st[h].flag] = TRUE]
    /\ out' = [op |-> "write_batch", h |-> h, arg |-> b, result |-> "pending", val |-> <<>>]
    /\ UNCHANGED <<rdb, wby>>
    /\ JournalIdle

RECURSIVE WrittenBy(_, _, _)
WrittenBy(w, start_key, operations) ==
    IF operations = <<>> THEN w
    ELSE LET operation == Head(operations)
             next == IF operation.op = "Put"
                     THEN DbPut(w, start_key \o operation.key, Tail(start_key))
                     ELSE w
         IN  WrittenBy(next, start_key, Tail(operations))

(* The spawned write_batch_internal of a pending write_batch; out.val      *)
(* keeps the raw keys that the write removed.                              *)
RocksWriteInternal(h) ==
    /\ st[h].open /\ st[h].pending # 0
    /\ LET operations == RocksBatches[st[h].pending]
           w == write_batch_internal(rdb, st[h].start_key, operations, st[h].write_root_key)
           by == WrittenBy(wby, st[h].start_key, operations)
       IN  /\ rdb' = w.db
           /\ wby' = IF w.result = "Ok"
                     THEN [k \in DOMAIN by \cap DOMAIN w.db |-> by[k]]
                     ELSE wby
           /\ st' = [st EXCEPT ![h].pending = 0,
                               ![h].write_root_key = FALSE,
                               ![h].wrote = @ \/ w.result = "Ok"]
           /\ out' = [op |-> "write_batch", h |-> h, arg |-> st[h].pending,
                      result |-> w.result, val |-> DOMAIN rdb \ DOMAIN w.db]
    /\ UNCHANGED <<rkw, nw>>
    /\ JournalIdle

(* db.write fails: nothing of the batch is written.  db.write is reached   *)
(* only by a batch that passed the key checks.                             *)
RocksWriteFailure(h) ==
    /\ st[h].open /\ st[h].pending # 0
    /\ \A i \in 1..Len(RocksBatches[st[h].pending]) :
           check_key_size(RocksBatches[st[h].pending][i].key)
    /\ st' = [st EXCEPT ![h].pending = 0, ![h].write_root_key = FALSE]
    /\ out' = [op |-> "write_batch", h |-> h, arg |-> st[h].pending,
               result |-> "RocksDb", val |-> <<>>]
    /\ UNCHANGED <<rdb, rkw, wby, nw>>
    /\ JournalIdle

RocksRead(h, op, arg, r, val) ==
    /\ st[h].open /\ RocksQuiet
    /\ out' = [op |-> op, h |-> h, arg |-> arg, result |-> r, val |-> val]
    /\ UNCHANGED <<rdb, st, rkw, wby, nw>>
    /\ JournalIdle

RocksFindKeysByPrefix(h, key_prefix) ==
    LET r == find_keys_by_prefix_internal(rdb, st[h].start_key, key_prefix)
    IN  RocksRead(h, "find_keys_by_prefix", key_prefix, r.result, r.keys)

RocksFindKeyValuesByPrefix(h, key_prefix) ==
    LET r == find_key_values_by_prefix_internal(rdb, st[h].start_key, key_prefix)
    IN  RocksRead(h, "find_key_values_by_prefix", key_prefix, r.result, r.key_values)

(* key_may_exist never answers false for a key of the database; for any    *)
(* other key it may answer either way.                                      *)
MayExist(start_key, keys) ==
    LET asked == {start_key \o keys[i] : i \in 1..Len(keys)}
    IN  {m \in SUBSET asked : asked \cap DOMAIN rdb \subseteq m}

RocksContainsKeys(h, keys) ==
    \E may \in MayExist(st[h].start_key, keys) :
        LET r == contains_keys_internal(rdb, st[h].start_key, keys, may)
        IN  RocksRead(h, "contains_keys", keys, r.result, r.values)

RocksReadMultiValues(h, keys) ==
    LET r == read_multi_values_bytes_internal(rdb, st[h].start_key, keys)
    IN  RocksRead(h, "read_multi_values_bytes", keys, r.result, r.values)

RocksListRootKeys ==
    /\ RocksQuiet
    /\ out' = [op |-> "list_root_keys", h |-> 0, arg |-> <<>>, result |-> "Ok",
               val |-> list_root_keys(rdb)]
    /\ UNCHANGED <<rdb, st, rkw, wby, nw>>
    /\ JournalIdle

NextRocks ==
    \/ \E h \in RHandles, root_key \in RootKeys : RocksOpenShared(h, root_key)
    \/ \E h \in RHandles, root_key \in RootKeys : RocksOpenExclusive(h, root_key)
    \/ \E h, o \in RHandles : RocksClone(h, o)
    \/ \E h \in RHandles, b \in 1..Len(RocksBatches) : RocksWriteBatch(h, b)
    \/ \E h \in RHandles : RocksWriteInternal(h)
    \/ \E h \in RHandles : RocksWriteFailure(h)
    \/ \E h \in RHandles, key_prefix \in RocksPrefixes : RocksFindKeysByPrefix(h, key_prefix)
    \/ \E h \in RHandles, key_prefix \in RocksPrefixes :
           RocksFindKeyValuesByPrefix(h, key_prefix)
    \/ \E h \in RHandles, keys \in RocksKeyLists : RocksContainsKeys(h, keys)
    \/ \E h \in RHandles, keys \in RocksKeyLists : RocksReadMultiValues(h, keys)
    \/ RocksListRootKeys

SpecRocks == Init /\ [][NextRocks]_vars

(***************************************************************************)
(* One write_batch of an exclusive journaling store on an empty inner      *)
(* store, for a choice of the limits of the inner store; the batch handed  *)
(* to the inner store at each write is kept in handed.                     *)
(***************************************************************************)
MaxPackBatchSize == 4

PackTotalSizes == {32, 64}

PackLimits ==
    {[max_batch_size |-> m, max_value_size |-> MAX_VALUE_SIZE, max_batch_total_size |-> t] :
        m \in 2..MaxPackBatchSize, t \in PackTotalSizes}

PackIdle == UNCHANGED <<jvars, rvars, nvars, cvars>>

PackWriteBatch(lim, ops) ==
    /\ ~pk.on
    /\ LET batch == from_batch(<<>>, ops)
           fast == is_fastpath_feasible(batch, lim)
           r == RunToWrite(WriteJournalInit(batch), lim)
       IN  pk' = [on |-> TRUE, lim |-> lim, ops |-> ops,
                  at |-> IF fast THEN "fast" ELSE r.at,
                  w |-> IF fast THEN WriteJournalInit(batch) ELSE r.w,
                  d |-> <<>>, header |-> 0, kind |-> "none", handed |-> EmptyBatch,
                  path |-> IF fast THEN "fast" ELSE "journal", ret |-> "none"]
    /\ PackIdle

PackFastWrite ==
    /\ pk.on /\ pk.at = "fast"
    /\ LET batch == [deletions |-> pk.w.deletions, insertions |-> pk.w.insertions]
       IN  pk' = [pk EXCEPT !.d = InnerWriteBatch(pk.d, batch),
                            !.kind = "fast", !.handed = batch,
                            !.at = "done", !.ret = "Ok"]
    /\ PackIdle

PackFlushTransaction ==
    /\ pk.on /\ pk.at = "flush"
    /\ LET batch == pk.w.transaction_batch
           r == RunToWrite(AfterFlush(pk.w), pk.lim)
       IN  pk' = [pk EXCEPT !.d = InnerWriteBatch(pk.d, batch),
                            !.kind = "transaction", !.handed = batch,
                            !.at = r.at, !.w = r.w]
    /\ PackIdle

PackCommitHeader ==
    /\ pk.on /\ pk.at = "header"
    /\ IF pk.w.block_count > 0
       THEN LET batch == HeaderBatch(pk.w.block_count)
            IN  pk' = [pk EXCEPT !.d = InnerWriteBatch(pk.d, batch),
                                 !.kind = "header", !.handed = batch,
                                 !.header = pk.w.block_count, !.at = "resolve"]
       ELSE pk' = [pk EXCEPT !.at = "done", !.ret = "Ok"]
    /\ PackIdle

PackResolveStep ==
    /\ pk.on /\ pk.at = "resolve"
    /\ LET block == ReadJournalBlock(pk.d, pk.header)
           batch == ResolveStepBatch(block.batch, pk.header)
       IN  IF block.result # "Ok"
           THEN pk' = [pk EXCEPT !.at = "done", !.ret = block.result]
           ELSE pk' = [pk EXCEPT !.d = InnerWriteBatch(pk.d, batch),
                                 !.kind = "resolve", !.handed = batch,
                                 !.header = @ - 1,
                                 !.at = IF pk.header - 1 > 0 THEN "resolve" ELSE "done",
                                 !.ret = IF pk.header - 1 > 0 THEN "none" ELSE "Ok"]
    /\ PackIdle

NextPack ==
    \/ \E lim \in PackLimits, i \in 1..Len(AllBatches) : PackWriteBatch(lim, AllBatches[i])
    \/ PackFastWrite
    \/ PackFlushTransaction
    \/ PackCommitHeader
    \/ PackResolveStep

SpecPack == Init /\ [][NextPack]_vars

(***************************************************************************)
(* Properties.                                                             *)
(***************************************************************************)
BatchApplied(batch, d) ==
    /\ \A i \in 1..Len(batch.deletions) : ~Has(d, batch.deletions[i])
    /\ \A i \in 1..Len(batch.insertions) :
         /\ Has(d, batch.insertions[i][1])
         /\ d[batch.insertions[i][1]] = batch.insertions[i][2]

C2_SuccessAppliedNoHeader ==
    \A h \in Handles :
        gh[h].call = "write" /\ ret[h] = "Ok" =>
            /\ UserView(db) = gh[h].post
            /\ ~Has(db, HeaderKey)

C4_NoSlowPathWithoutExclusivity ==
    \A h \in Handles :
        gh[h].call = "write" /\ ~mode[h] /\ ~is_fastpath_feasible(gh[h].batch, Limits) =>
            /\ pc[h] = "idle"
            /\ ret[h] = "JournalRequiresExclusiveAccess"
            /\ gh[h].writes = 0
            /\ UserView(db) = gh[h].pre
            /\ HeaderCount(db) = gh[h].n0

C4_Witness ==
    \E h \in Handles :
        /\ gh[h].call = "write"
        /\ ~mode[h]
        /\ ~is_fastpath_feasible(gh[h].batch, Limits)
        /\ ret[h] = "JournalRequiresExclusiveAccess"

(* C5: when write_batch has returned an error, the user-visible state is   *)
(* the state before the call.                                              *)
C5_ErrorNoPartialEffect ==
    \A h \in Handles :
        gh[h].call = "write" /\ ret[h] \notin {"none", "Ok"} => UserView(db) = gh[h].pre

(* C6: a read through a clone, while a write_batch of the store is in      *)
(* progress, returns the user-visible state before the batch or the one    *)
(* after it, never one in between.                                         *)
C6_ReadsSeeWholeBatches ==
    \A h \in Handles : \A x \in obs[h].during : obs[h].view \in {x.pre, x.post}

(* C7: two write_batch calls through clones of one exclusive store,        *)
(* interleaved at their backend accesses, never fail with                  *)
(* FailureToRetrieveJournalBlock, and once both have returned the state is *)
(* that of the two batches applied in one order or the other.              *)
C7_ClonesLinearizable ==
    /\ \A h \in Handles : ret[h] # "FailureToRetrieveJournalBlock"
    /\ (\A h \in Handles : gh[h].call = "write" /\ pc[h] = "idle" /\ ret[h] = "Ok") =>
           UserView(db) \in
               { UserView(ApplyOperations(ApplyOperations(<<>>, gh[1].ops), gh[2].ops)),
                 UserView(ApplyOperations(ApplyOperations(<<>>, gh[2].ops), gh[1].ops)) }

C9_IdempotentRecovery ==
    /\ \A h \in Handles :
         gh[h].call = "clear" /\ gh[h].n0 = 0 =>
             pc[h] = "idle" /\ ret[h] = "Ok" /\ gh[h].writes = 0
    /\ rt.phase = "active" => Replay(db) = rt.target
    /\ rt.phase = "done" => db = rt.target /\ ~Has(db, HeaderKey)

C9_Witness ==
    /\ rt.phase = "done"
    /\ rt.interrupted
    /\ UserView(rt.target) # <<>>

(* C10: no user operation (a read or a write_batch) of a freshly opened    *)
(* store is served while the journal header is present.                    *)
C10_RecoveryBeforeFirstOperation ==
    \A h \in Handles : gh[h].served # "journal"


(***************************************************************************)
(* C11. Exclusivity: while an exclusive handle on a root key is            *)
(* outstanding the database returns no second handle, exclusive or shared, *)
(* on the same root key (clones of one handle share the one store).        *)
(***************************************************************************)
C11_Exclusivity ==
    \A h \in RHandles : \A o \in RHandles \ {h} :
        (/\ st[h].open /\ st[o].open
         /\ st[h].flag # st[o].flag
         /\ st[h].start_key = st[o].start_key)
        => (~st[h].exclusive /\ ~st[o].exclusive)

(***************************************************************************)
(* C12. Partition isolation: for stores on distinct root keys, a           *)
(* find_keys_by_prefix([]) of one returns no key written through the       *)
(* other, and a write through one removes no key written through the       *)
(* other.                                                                  *)
(***************************************************************************)
C12_PartitionIsolation ==
    /\ (out.op = "find_keys_by_prefix" /\ out.arg = <<>> /\ out.result = "Ok")
       => \A i \in 1..Len(out.val) :
              wby[st[out.h].start_key \o out.val[i]] = RootKeyOf(out.h)
    /\ (out.op = "write_batch" /\ out.result = "Ok")
       => \A k \in out.val : wby[k] = RootKeyOf(out.h)

(***************************************************************************)
(* C13. Root-key index: once a write_batch of a store has returned         *)
(* success, list_root_keys holds the root key of the store exactly once,   *)
(* and it holds no root key of a store that never wrote.                   *)
(***************************************************************************)
C13_RootKeyIndex ==
    LET index == list_root_keys(rdb)
    IN  /\ \A h \in RHandles :
               (st[h].open /\ st[h].wrote)
               => Cardinality({i \in 1..Len(index) : index[i] = RootKeyOf(h)}) = 1
        /\ \A i \in 1..Len(index) :
               \E h \in RHandles : st[h].open /\ st[h].wrote /\ RootKeyOf(h) = index[i]

(***************************************************************************)
(* C18. find_keys_by_prefix(p) returns exactly the keys of the store that  *)
(* start with p, with the root prefix and p stripped, in strictly          *)
(* ascending bytewise order (so without duplicates), and                   *)
(* find_key_values_by_prefix(p) returns the same keys in the same order,   *)
(* each with its value; a prefix longer than MAX_KEY_SIZE is refused.      *)
(***************************************************************************)
StoreKeysUnder(h, p) == {k \in DOMAIN rdb : IsPrefix(st[h].start_key \o p, k)}

Stripped(h, p, k) == SubSeq(k, Len(st[h].start_key) + Len(p) + 1, Len(k))

C18_FindByPrefix ==
    /\ out.op = "find_keys_by_prefix"
       => IF Len(out.arg) > MAX_KEY_SIZE THEN out.result = "KeyTooLong"
          ELSE /\ out.result = "Ok"
               /\ {out.val[i] : i \in 1..Len(out.val)}
                    = {Stripped(out.h, out.arg, k) : k \in StoreKeysUnder(out.h, out.arg)}
               /\ \A i \in 1..(Len(out.val) - 1) : LexLess(out.val[i], out.val[i + 1])
    /\ out.op = "find_key_values_by_prefix"
       => IF Len(out.arg) > MAX_KEY_SIZE THEN out.result = "KeyTooLong"
          ELSE /\ out.result = "Ok"
               /\ {out.val[i][1] : i \in 1..Len(out.val)}
                    = {Stripped(out.h, out.arg, k) : k \in StoreKeysUnder(out.h, out.arg)}
               /\ \A i \in 1..(Len(out.val) - 1) : LexLess(out.val[i][1], out.val[i + 1][1])
               /\ \A i \in 1..Len(out.val) :
                      out.val[i][2] = rdb[st[out.h].start_key \o out.arg \o out.val[i][1]]

(* A scan under a non-empty prefix that returns several keys, one of them  *)
(* the prefix itself, while the store holds keys outside the prefix.       *)
C18_Witness ==
    /\ out.op = "find_key_values_by_prefix"
    /\ out.arg = <<6>>
    /\ Len(out.val) >= 2
    /\ out.val[1][1] = <<>>
    /\ \E k \in StoreKeysUnder(out.h, <<>>) : ~IsPrefix(st[out.h].start_key \o out.arg, k)

(***************************************************************************)
(* C19. A write_batch of [DeletePrefix(p)] removes every key of the store  *)
(* that starts with p and leaves every other key of the database, with its *)
(* value, unchanged; it removes and changes no entry of the root-key index *)
(* and adds at most the entry of the store's own root key (the first write *)
(* of a store).                                                            *)
(***************************************************************************)
IsDeletePrefixWrite ==
    /\ out'.op = "write_batch" /\ out'.result = "Ok"
    /\ Len(RocksBatches[out'.arg]) = 1
    /\ RocksBatches[out'.arg][1].op = "DeletePrefix"

DeletePrefixKeys ==
    LET h == out'.h
        p == RocksBatches[out'.arg][1].key
    IN  /\ \A k \in DOMAIN rdb :
               IF IsPrefix(st[h].start_key \o p, k)
               THEN k \notin DOMAIN rdb'
               ELSE k \in DOMAIN rdb' /\ rdb'[k] = rdb[k]
        /\ (DOMAIN rdb') \ (DOMAIN rdb) \subseteq {RootKeyEntry(st[h].start_key)}

C19_DeletePrefixFrame ==
    [][IsDeletePrefixWrite => DeletePrefixKeys]_vars

(* C19 as stated: the root-key index is unchanged by the write.            *)
C19_IndexUnchanged ==
    [][IsDeletePrefixWrite
         => (DeletePrefixKeys /\ list_root_keys(rdb') = list_root_keys(rdb))]_vars

(* A DeletePrefix([6]) that removed keys of a store which keeps other keys *)
(* and whose root key is in the index.                                     *)
C19_Witness ==
    /\ out.op = "write_batch" /\ out.result = "Ok"
    /\ RocksBatches[out.arg] = <<DeletePrefix(<<6>>)>>
    /\ out.val # {}
    /\ \E k \in DOMAIN rdb : k[1] = ROOT_KEY_DOMAIN /\ IsPrefix(st[out.h].start_key, k)
    /\ list_root_keys(rdb) # <<>>

(***************************************************************************)
(* C20. contains_keys(keys) and read_multi_values(keys) return a list as   *)
(* long as keys whose i-th entry is what contains_key(keys[i]) and         *)
(* read_value(keys[i]) return, for absent and for repeated keys and for    *)
(* every answer of key_may_exist; they refuse the call when a key is       *)
(* longer than MAX_KEY_SIZE, as the single-key call on that key does.      *)
(***************************************************************************)
MayAnswers(h, key) ==
    IF Has(rdb, st[h].start_key \o key) THEN {TRUE} ELSE BOOLEAN

C20_MultiMatchesSingle ==
    /\ out.op = "contains_keys"
       => IF \E i \in 1..Len(out.arg) :
                 contains_key(rdb, st[out.h].start_key, out.arg[i], TRUE).result # "Ok"
          THEN out.result = "KeyTooLong"
          ELSE /\ out.result = "Ok"
               /\ Len(out.val) = Len(out.arg)
               /\ \A i \in 1..Len(out.arg) : \A may \in MayAnswers(out.h, out.arg[i]) :
                      out.val[i] = contains_key(rdb, st[out.h].start_key, out.arg[i], may).value
    /\ out.op = "read_multi_values_bytes"
       => IF \E i \in 1..Len(out.arg) :
                 read_value_bytes(rdb, st[out.h].start_key, out.arg[i]).result # "Ok"
          THEN out.result = "KeyTooLong"
          ELSE /\ out.result = "Ok"
               /\ Len(out.val) = Len(out.arg)
               /\ \A i \in 1..Len(out.arg) :
                      out.val[i] = read_value_bytes(rdb, st[out.h].start_key, out.arg[i]).value

(* contains_keys of an absent key, a present one and the absent one again. *)
C20_Witness ==
    /\ out.op = "contains_keys"
    /\ out.arg = <<<<5, 7>>, <<6, 255>>, <<5, 7>>>>
    /\ out.val = <<FALSE, TRUE, FALSE>>

(***************************************************************************)
(* C14. write_batch takes the fast path exactly when the batch has at most *)
(* MAX_BATCH_SIZE operations and at most MAX_BATCH_TOTAL_SIZE bytes; on    *)
(* the fast path it makes one inner write_batch call, which writes the     *)
(* batch itself, and no journal header or block entry is written.          *)
(***************************************************************************)
FitsInnerStore(batch) ==
    BatchLen(batch) <= MAX_BATCH_SIZE /\ BatchNumBytes(batch) <= MAX_BATCH_TOTAL_SIZE

JournalPart(d) == [k \in {x \in DOMAIN d : x[1] = JOURNAL_TAG} |-> d[k]]

FastPathIffFeasible ==
    \A h \in Handles :
        gh[h].call = "write" =>
            IF FitsInnerStore(gh[h].batch)
            THEN /\ pc[h] \in {"fast", "idle"}
                 /\ ret[h] \in {"none", "Ok", "BackendFailure"}
                 /\ pc[h] = "fast" => gh[h].writes = 0
                 /\ ret[h] = "Ok" => gh[h].writes = 1
                 /\ ret[h] = "BackendFailure" => gh[h].writes = 0
            ELSE /\ pc[h] # "fast"
                 /\ ret[h] = "Ok" => gh[h].writes > 1

FastPathWritesBatchOnly ==
    \A h \in Handles :
        (gh[h].call = "write" /\ FitsInnerStore(gh[h].batch) /\ db' # db) =>
            /\ db' = InnerWriteBatch(db, gh[h].batch)
            /\ JournalPart(db') = JournalPart(db)

C14_FastPath == []FastPathIffFeasible /\ [][FastPathWritesBatchOnly]_vars

(* A fast-path write of a batch of exactly MAX_BATCH_SIZE operations that  *)
(* has returned.                                                           *)
C14_Witness ==
    \E h \in Handles :
        /\ gh[h].call = "write"
        /\ BatchLen(gh[h].batch) = MAX_BATCH_SIZE
        /\ FitsInnerStore(gh[h].batch)
        /\ ret[h] = "Ok"
        /\ gh[h].writes = 1

(***************************************************************************)
(* C15. Every batch handed to the inner store (fast-path write, block      *)
(* transaction, header commit, resolution step) has at most MAX_BATCH_SIZE *)
(* operations, for every MAX_BATCH_SIZE and every input batch, and every   *)
(* journal block holds at most MAX_BATCH_SIZE - 2 operations.              *)
(***************************************************************************)
BlocksOf(batch) ==
    {BcsParseBatch(batch.insertions[i][2]).batch : i \in 1..Len(batch.insertions)}

C15_BatchOperationCount ==
    (pk.on /\ pk.kind # "none") =>
        /\ BatchLen(pk.handed) <= pk.lim.max_batch_size
        /\ pk.kind = "transaction" =>
               \A block \in BlocksOf(pk.handed) :
                   BatchLen(block) <= pk.lim.max_batch_size - 2

(***************************************************************************)
(* C16. Every batch handed to the inner store has at most                  *)
(* MAX_BATCH_TOTAL_SIZE bytes, and every serialized journal block has at   *)
(* most min(MAX_VALUE_SIZE, MAX_BATCH_TOTAL_SIZE - key_len - (key_len +    *)
(* header_size)) bytes.                                                    *)
(***************************************************************************)
C16_BatchByteSize ==
    (pk.on /\ pk.kind # "none") =>
        /\ BatchNumBytes(pk.handed) <= pk.lim.max_batch_total_size
        /\ pk.kind = "transaction" =>
               \A i \in 1..Len(pk.handed.insertions) :
                   /\ Len(pk.handed.insertions[i][2]) <= pk.lim.max_value_size
                   /\ Len(pk.handed.insertions[i][2])
                        <= pk.lim.max_batch_total_size - Len(HeaderKey)
                             - (Len(HeaderKey) + Len(JournalHeaderBytes(0)))

NsIdle == UNCHANGED <<jvars, rvars, pvars, cvars>>

NsOut(op, namespace, result, found, names) ==
    [op |-> op, ns |-> namespace, result |-> result, found |-> found, names |-> names,
     before |-> disk]

NsConnect(namespace) ==
    /\ disk' = build(disk, namespace).disk
    /\ nsout' = NsOut("connect", namespace, build(disk, namespace).result, FALSE, {})
    /\ UNCHANGED made
    /\ NsIdle

NsListRootKeys(namespace) ==
    /\ disk' = build(disk, namespace).disk
    /\ nsout' = NsOut("list_root_keys", namespace, build(disk, namespace).result, FALSE, {})
    /\ UNCHANGED made
    /\ NsIdle

NsExists(namespace) ==
    /\ nsout' = NsOut("exists", namespace, exists(disk, namespace).result,
                      exists(disk, namespace).found, {})
    /\ UNCHANGED <<disk, made>>
    /\ NsIdle

NsCreate(namespace) ==
    /\ disk' = create(disk, namespace).disk
    /\ made' = IF create(disk, namespace).result = "Ok" THEN made \cup {namespace} ELSE made
    /\ nsout' = NsOut("create", namespace, create(disk, namespace).result, FALSE, {})
    /\ NsIdle

NsDelete(namespace) ==
    /\ disk' = delete(disk, namespace).disk
    /\ made' = IF delete(disk, namespace).result = "Ok" THEN made \ {namespace} ELSE made
    /\ nsout' = NsOut("delete", namespace, delete(disk, namespace).result, FALSE, {})
    /\ NsIdle

NsListAll ==
    /\ nsout' = NsOut("list_all", <<>>, list_all(disk).result, FALSE, list_all(disk).names)
    /\ UNCHANGED <<disk, made>>
    /\ NsIdle

NsDeleteAll ==
    /\ disk' = delete_all(disk).disk
    /\ made' = IF delete_all(disk).result = "Ok" THEN {} ELSE made
    /\ nsout' = NsOut("delete_all", <<>>, delete_all(disk).result, FALSE, {})
    /\ NsIdle

NextLifecycle ==
    \/ \E namespace \in NsNames : NsExists(namespace)
    \/ \E namespace \in NsNames : NsCreate(namespace)
    \/ \E namespace \in NsNames : NsDelete(namespace)
    \/ NsListAll
    \/ NsDeleteAll

SpecLifecycle == Init /\ [][NextLifecycle]_vars

NextNamespaces ==
    \/ \E namespace \in NsNames : NsConnect(namespace)
    \/ \E namespace \in NsNames : NsListRootKeys(namespace)
    \/ NextLifecycle

SpecNamespaces == Init /\ [][NextNamespaces]_vars

(***************************************************************************)
(* C21.  A connect, list_root_keys, exists, create or delete with a        *)
(* namespace that has a character outside [A-Za-z0-9_] fails with          *)
(* InvalidNamespace and leaves the directories of the storage path as      *)
(* they were.                                                              *)
(***************************************************************************)
HasForbiddenCharacter(namespace) ==
    \E i \in 1..Len(namespace) :
        namespace[i] \notin (48..57) \cup (65..90) \cup (97..122) \cup {95}

NsChecked == {"connect", "list_root_keys", "exists", "create", "delete"}

C21_InvalidNamespace ==
    (nsout.op \in NsChecked /\ HasForbiddenCharacter(nsout.ns))
        => (nsout.result = "InvalidNamespace" /\ disk = nsout.before)

C21_Witness ==
    /\ nsout.op = "create"
    /\ HasForbiddenCharacter(nsout.ns)
    /\ nsout.result = "InvalidNamespace"
    /\ disk.dirs # {}


(***************************************************************************)
(* C22.  Over create, delete, exists, list_all and delete_all calls:       *)
(* exists(ns) answers true exactly when ns was created and not deleted     *)
(* since; create of an existing namespace fails with StoreAlreadyExists    *)
(* and changes nothing; list_all returns exactly the existing namespaces;  *)
(* after delete_all no namespace exists.                                   *)
(***************************************************************************)
C22_NamespaceLifecycle ==
    /\ (nsout.op = "exists" /\ nsout.result = "Ok")
           => (nsout.found <=> nsout.ns \in made)
    /\ (nsout.op = "create" /\ exists(nsout.before, nsout.ns).found)
           => (nsout.result = "StoreAlreadyExists" /\ disk = nsout.before)
    /\ (nsout.op = "list_all" /\ nsout.result = "Ok") => nsout.names = made
    /\ (nsout.op = "list_all") => (nsout.result = "Ok")
    /\ (nsout.op = "delete_all")
           => (nsout.result = "Ok"
               /\ \A namespace \in NsNames :
                      check_namespace(namespace) = "Ok" => ~exists(disk, namespace).found)


(***************************************************************************)
(* A journal whose top block is damaged while no store is open: the entry  *)
(* is removed, cut short by one byte, or overwritten with bytes that are   *)
(* no batch.                                                               *)
(***************************************************************************)
DamageKinds == {"missing", "truncated", "malformed"}

Damage(kind) ==
    /\ \A h \in Handles : pc[h] = "closed"
    /\ ReadJournalHeader(db).present
    /\ HeaderCount(db) > 0
    /\ ReadJournalBlock(db, HeaderCount(db)).result = "Ok"
    /\ LET key == BlockKey(HeaderCount(db) - 1)
       IN  db' = CASE kind = "missing" -> DbDelete(db, key)
                   [] kind = "truncated" -> DbPut(db, key, SubSeq(db[key], 1, Len(db[key]) - 1))
                   [] OTHER -> DbPut(db, key, <<255>> \o db[key])
    /\ UNCHANGED <<pc, mode, loc, ret, gh, tr, cj, rt, obs, crashes, failures>>
    /\ UNCHANGED <<rvars, pvars, nvars, cvars, ov>>

NextDamage ==
    \/ OpenExclusive(1)
    \/ WriteBatch(1, AllBatches[1])
    \/ FlushTransaction(1)
    \/ CommitHeader(1)
    \/ ResolveRead(1)
    \/ ResolveWrite(1)
    \/ ClearJournal(1)
    \/ Crash
    \/ \E kind \in DamageKinds : Damage(kind)

SpecDamage == Init /\ [][NextDamage]_vars

(***************************************************************************)
(* C23.  A clear_journal that finds a header with block_count = N > 0      *)
(* and cannot read a batch from the block entry N - 1 (missing, truncated  *)
(* or malformed) fails with FailureToRetrieveJournalBlock and has written  *)
(* nothing to the backend.                                                 *)
(***************************************************************************)
C23_JournalIntegrityError ==
    \A h \in Handles :
        (/\ gh[h].call = "clear"
         /\ pc[h] = "idle"
         /\ gh[h].n0 > 0
         /\ HeaderCount(db) = gh[h].n0
         /\ ReadJournalBlock(db, gh[h].n0).result # "Ok")
            => (ret[h] = "FailureToRetrieveJournalBlock" /\ gh[h].writes = 0)


(***************************************************************************)
(* C24.  A write_batch with a Put, Delete or DeletePrefix whose key is     *)
(* longer than MAX_KEY_SIZE fails with KeyTooLong and applies none of its  *)
(* operations, wherever the key stands in the batch; read_value,           *)
(* contains_key, contains_keys, read_multi_values and the prefix scans     *)
(* fail with KeyTooLong for a key that is too long.                        *)
(***************************************************************************)
LongKey == [i \in 1..(MAX_KEY_SIZE + 1) |-> 6]

HasLongKey(operations) == \E i \in 1..Len(operations) : Len(operations[i].key) > MAX_KEY_SIZE

LongKeyBatches ==
    UNION { { <<x>>, <<Put(<<7>>, VB), x>>, <<x, Delete(<<6>>)>>,
              <<Put(<<7>>, VB), x, DeletePrefix(<<>>)>> } :
            x \in {Put(LongKey, VA), Delete(LongKey), DeletePrefix(LongKey)} }

LongKeyRejected ==
    /\ (out.op = "write_batch" /\ out.result # "pending" /\ HasLongKey(RocksBatches[out.arg]))
           => out.result = "KeyTooLong"
    /\ (out.op \in {"contains_keys", "read_multi_values_bytes"}
            /\ \E i \in 1..Len(out.arg) : Len(out.arg[i]) > MAX_KEY_SIZE)
           => out.result = "KeyTooLong"
    /\ (out.op \in {"find_keys_by_prefix", "find_key_values_by_prefix"}
            /\ Len(out.arg) > MAX_KEY_SIZE)
           => out.result = "KeyTooLong"
    /\ \A h \in RHandles :
           st[h].open =>
               LET start_key == st[h].start_key
               IN  /\ \A operations \in LongKeyBatches, write_root_key \in BOOLEAN :
                          LET w == write_batch_internal(rdb, start_key, operations,
                                                        write_root_key)
                          IN  w.result = "KeyTooLong" /\ w.db = rdb
                   /\ read_value_bytes(rdb, start_key, LongKey).result = "KeyTooLong"
                   /\ \A may \in BOOLEAN :
                          contains_key(rdb, start_key, LongKey, may).result = "KeyTooLong"
                   /\ \A keys \in {<<LongKey>>, <<<<6>>, LongKey>>, <<LongKey, <<6>>>>} :
                          /\ \A may \in MayExist(start_key, keys) :
                                 contains_keys_internal(rdb, start_key, keys, may).result
                                     = "KeyTooLong"
                          /\ read_multi_values_bytes_internal(rdb, start_key, keys).result
                                 = "KeyTooLong"
                   /\ find_keys_by_prefix_internal(rdb, start_key, LongKey).result
                          = "KeyTooLong"
                   /\ find_key_values_by_prefix_internal(rdb, start_key, LongKey).result
                          = "KeyTooLong"

LongKeyWritesNothing ==
    (out'.op = "write_batch" /\ out'.result = "KeyTooLong") => rdb' = rdb

C24_KeyTooLong == []LongKeyRejected /\ [][LongKeyWritesNothing]_vars

C24_Witness ==
    /\ out.op = "write_batch"
    /\ out.result = "KeyTooLong"
    /\ Len(RocksBatches[out.arg]) > 1
    /\ check_key_size(RocksBatches[out.arg][1].key)
    /\ rdb # <<>>
    /\ ~Has(rdb, st[out.h].start_key \o RocksBatches[out.arg][1].key)


(***************************************************************************)
(* C25.  Every backend write of write_journal before the header commit     *)
(* only inserts values at journal entry keys, and until the header is      *)
(* written the keys outside the journal tag are as they were when the      *)
(* batch was submitted.                                                    *)
(***************************************************************************)
IsEntryKey(k) == Len(k) = 6 /\ k[1] = JOURNAL_TAG /\ k[2] = KeyTagEntry

ChangedKeys(d, e) ==
    {k \in DOMAIN d \cup DOMAIN e : ~(k \in DOMAIN d /\ k \in DOMAIN e /\ d[k] = e[k])}

BlockWritesInsertEntries ==
    \A h \in Handles :
        (gh[h].call = "write" /\ pc[h] = "flush" /\ gh'[h].writes = gh[h].writes + 1) =>
            /\ loc[h].w.transaction_batch.deletions = <<>>
            /\ \A i \in 1..Len(loc[h].w.transaction_batch.insertions) :
                   IsEntryKey(loc[h].w.transaction_batch.insertions[i][1])
            /\ \A k \in ChangedKeys(db, db') : IsEntryKey(k) /\ k \in DOMAIN db'
            /\ UserView(db') = UserView(db)

UserViewUntilHeader ==
    \A h \in Handles :
        (gh[h].call = "write" /\ gh[h].alone /\ pc[h] \in {"flush", "header"})
            => UserView(db) = gh[h].pre

C25_LinearizationPoint == []UserViewUntilHeader /\ [][BlockWritesInsertEntries]_vars

C25_Witness ==
    \E h \in Handles :
        /\ gh[h].call = "write"
        /\ pc[h] = "header"
        /\ gh[h].writes >= 2
        /\ gh[h].pre # gh[h].post
        /\ UserView(db) = gh[h].pre
        /\ \E k \in DOMAIN db : IsEntryKey(k)


(***************************************************************************)
(* C26.  Each step of the resolution reads the block at index              *)
(* block_count - 1 and issues one backend batch: the operations of that    *)
(* block, a Delete of the block's key, and an Insert of the header with    *)
(* block_count - 1 if that is positive, a Delete of the header key         *)
(* otherwise.  Blocks are consumed from the highest index down and the     *)
(* persisted block_count goes down by one with every successful step.      *)
(***************************************************************************)
TopBlock(d) == BcsParseBatch(d[BlockKey(HeaderCount(d) - 1)]).batch

ResolutionStep ==
    \A h \in Handles :
        (pc[h] = "resolve_write" /\ gh'[h].writes = gh[h].writes + 1) =>
            LET n == HeaderCount(db)
                block == TopBlock(db)
                handed == loc[h].pending
            IN  /\ n > 0
                /\ Has(db, BlockKey(n - 1))
                /\ handed.deletions =
                       block.deletions \o <<BlockKey(n - 1)>>
                           \o (IF n - 1 > 0 THEN <<>> ELSE <<HeaderKey>>)
                /\ handed.insertions =
                       block.insertions
                           \o (IF n - 1 > 0
                               THEN << <<HeaderKey, JournalHeaderBytes(n - 1)>> >>
                               ELSE <<>>)
                /\ db' = InnerWriteBatch(db, handed)
                /\ ~Has(db', BlockKey(n - 1))
                /\ HeaderCount(db') = n - 1
                /\ Has(db', HeaderKey) <=> n - 1 > 0

ResolutionCountsDown ==
    \A h \in Handles :
        (gh[h].call = "clear" /\ gh[h].alone) =>
            /\ HeaderCount(db) = gh[h].n0 - gh[h].writes
            /\ pc[h] = "resolve" => loc[h].header = HeaderCount(db)

C26_ResolutionStep == []ResolutionCountsDown /\ [][ResolutionStep]_vars

C26_Witness ==
    \E h \in Handles :
        /\ gh[h].call = "clear"
        /\ pc[h] = "resolve"
        /\ gh[h].writes >= 2
        /\ HeaderCount(db) = gh[h].n0 - gh[h].writes
        /\ HeaderCount(db) > 0


(***************************************************************************)
(* C27.  In a slow-path write the header {block_count: N} is written in a  *)
(* backend batch of its own, after every block transaction has been        *)
(* written, and the blocks 0..N-1 in the store are the blocks of this      *)
(* write; when a block transaction fails the call returns that error and   *)
(* has not written the header.                                             *)
(***************************************************************************)
JournalOps(d, n) ==
    LET block(i) == BcsParseBatch(d[BlockKey(i - 1)]).batch
    IN  [deletions |-> Concat([i \in 1..n |-> block(i).deletions]),
         insertions |-> Concat([i \in 1..n |-> block(i).insertions])]

HeaderCommitStep ==
    \A h \in Handles :
        (pc[h] = "header" /\ gh'[h].writes = gh[h].writes + 1) =>
            LET n == HeaderCount(db')
            IN  /\ ChangedKeys(db, db') \subseteq {HeaderKey}
                /\ Has(db', HeaderKey)
                /\ n > 0
                /\ \A i \in 0..(n - 1) : Has(db, BlockKey(i))
                /\ JournalOps(db, n) = gh[h].batch
                /\ loc[h].w.transaction_batch = EmptyBatch
                /\ loc[h].w.block_batch = EmptyBatch
                /\ IterIsEmpty(loc[h].w)

FailedTransactionStep ==
    \A h \in Handles :
        (pc[h] = "flush" /\ pc'[h] = "idle") =>
            (ret'[h] = "BackendFailure" /\ db' = db)

FailedTransactionNoHeader ==
    \A h \in Handles :
        (/\ gh[h].call = "write"
         /\ pc[h] = "idle"
         /\ ret[h] = "BackendFailure"
         /\ loc[h].header = 0
         /\ loc[h].w.transaction_batch # EmptyBatch)
            => (Has(db, HeaderKey) => (gh[h].n0 > 0 /\ HeaderCount(db) = gh[h].n0))

C27_HeaderCommitOrdering ==
    /\ []FailedTransactionNoHeader
    /\ [][HeaderCommitStep /\ FailedTransactionStep]_vars

C27_Witness ==
    \E h \in Handles :
        /\ gh[h].call = "write"
        /\ pc[h] = "resolve"
        /\ loc[h].header = HeaderCount(db)
        /\ HeaderCount(db) >= 2
        /\ gh[h].writes >= 3
        /\ JournalOps(db, HeaderCount(db)) = gh[h].batch

C27_FailureWitness ==
    \E h \in Handles :
        /\ gh[h].call = "write"
        /\ pc[h] = "idle"
        /\ ret[h] = "BackendFailure"
        /\ gh[h].writes >= 1
        /\ loc[h].w.transaction_batch # EmptyBatch
        /\ ~Has(db, HeaderKey)


(***************************************************************************)
(* C28.  A transaction batch of blocks is flushed before it would exceed   *)
(* MAX_BATCH_TOTAL_SIZE bytes or MAX_BATCH_SIZE - 1 block inserts: no      *)
(* flushed transaction batch holds more than MAX_BATCH_SIZE - 1 block      *)
(* inserts or more than MAX_BATCH_TOTAL_SIZE bytes.                        *)
(***************************************************************************)
C28_TransactionPacking ==
    (pk.on /\ pk.kind = "transaction") =>
        /\ pk.handed.deletions = <<>>
        /\ Len(pk.handed.insertions) <= pk.lim.max_batch_size - 1
        /\ BatchNumBytes(pk.handed) <= pk.lim.max_batch_total_size


(***************************************************************************)
(* Slow-path writes of different lengths on one exclusive store, with      *)
(* crashes: a write of five blocks that stops before its header commit     *)
(* leaves blocks that a later write of four blocks does not overwrite.     *)
(***************************************************************************)
OrphanBatches ==
    { << Put(K11, VB), Put(K12, VB), Put(K21, VB), Put(K22, VB), Delete(<<2, 3>>) >>,
      AllBatches[1],
      AllBatches[3] }

NextOrphans ==
    \/ OpenExclusive(1)
    \/ \E ops \in OrphanBatches : WriteBatch(1, ops)
    \/ FastWrite(1)
    \/ FlushTransaction(1)
    \/ CommitHeader(1)
    \/ ResolveRead(1)
    \/ ResolveWrite(1)
    \/ ClearJournal(1)
    \/ Crash

SpecOrphans == Init /\ [][NextOrphans]_vars

C30_CommittedJournalNotOvertaken ==
    \A h \in Handles :
        (/\ ov.on
         /\ crashes + failures = 1
         /\ gh[h].call \in {"write", "clear"}
         /\ pc[h] = "idle"
         /\ ret[h] = "Ok"
         /\ ~Has(db, HeaderKey))
            => UserView(db) = ov.want


(***************************************************************************)
(* The journal keys: get_journaling_key is called for a tag and a          *)
(* position, and jk keeps the keys it has returned.                        *)
(***************************************************************************)
MaxKeyCalls == 3

KeyTags == {KeyTagJournal, KeyTagEntry}

KeyPositions == {0, 1, 255, 256, 257, 65536, 2147483647}

KeysIdle == UNCHANGED <<jvars, rvars, pvars, nvars, cb, oc, dl>>

GetJournalingKey(tag, pos) ==
    /\ Cardinality(jk) < MaxKeyCalls
    /\ jk' = jk \cup {[tag |-> tag, pos |-> pos, key |-> get_journaling_key(tag, pos)]}
    /\ KeysIdle

NextKeys == \E tag \in KeyTags, pos \in KeyPositions : GetJournalingKey(tag, pos)

SpecKeys == Init /\ [][NextKeys]_vars

(***************************************************************************)
(* C31.  The header key and the block keys of all indices are pairwise     *)
(* distinct, all start with journal tag 0, and no user key that begins     *)
(* with a view tag >= MIN_VIEW_TAG equals one of them or is a prefix of    *)
(* one; so no Put, Delete or DeletePrefix of such a key inserts, changes   *)
(* or removes a header or block entry.                                     *)
(***************************************************************************)
UserKeys ==
    {<<1>>, <<2>>, <<1, 1>>, <<1, 2, 0, 0, 0, 0>>, <<1, 1, 0, 0, 0, 0>>,
     <<2, 2, 1, 0, 0, 0>>, <<255>>, <<255, 2, 255, 255, 255, 127>>}

UserOperations ==
    UNION {{Put(u, VA), Delete(u), DeletePrefix(u)} : u \in UserKeys}

JournalStore == [k \in {r.key : r \in jk} |-> <<9>>]

C31_JournalKeySpace ==
    /\ \A u \in UserKeys : u[1] >= MIN_VIEW_TAG
    /\ \A a, b \in jk : a.key = b.key => (a.tag = b.tag /\ a.pos = b.pos)
    /\ \A a \in jk :
           /\ a.key[1] = JOURNAL_TAG
           /\ \A u \in UserKeys : ~(Len(u) <= Len(a.key) /\ SubSeq(a.key, 1, Len(u)) = u)
    /\ \A operation \in UserOperations :
           LET after == InnerWriteBatch(JournalStore, from_batch(JournalStore, <<operation>>))
           IN  [k \in {x \in DOMAIN after : x[1] = JOURNAL_TAG} |-> after[k]] = JournalStore

C31_Witness ==
    \E a, b \in jk :
        /\ a.tag = KeyTagEntry /\ a.pos = 0
        /\ b.tag = KeyTagEntry /\ b.pos = 256
        /\ a.key # b.key
        /\ \E c \in jk : c.tag = KeyTagJournal /\ c.pos = 0


(***************************************************************************)
(* C32.  The root_key_written flag never runs ahead of the index: with no  *)
(* write in flight, a store whose flag is set has its root key in the      *)
(* index of stored root keys, also after a first write_batch that failed.  *)
(***************************************************************************)
C32_FlagNotAheadOfIndex ==
    LET index == list_root_keys(rdb)
    IN  \A h \in RHandles :
            (RocksQuiet /\ st[h].open /\ rkw[st[h].flag])
            => \E i \in 1..Len(index) : index[i] = RootKeyOf(h)


(***************************************************************************)
(* C33.  list_root_keys(config, namespace) and exists(config, namespace)   *)
(* have no side effect: the set of existing namespaces after the call is   *)
(* the set before it, so a namespace that was never created still does     *)
(* not exist after list_root_keys has been called on it.                   *)
(***************************************************************************)
ExistingNamespaces(d) ==
    {namespace \in NsNames :
        exists(d, namespace).result = "Ok" /\ exists(d, namespace).found}

C33_ReadOnlyQueries ==
    (nsout.op \in {"list_root_keys", "exists"} /\ nsout.ns # <<>>)
        => /\ ExistingNamespaces(disk) = ExistingNamespaces(nsout.before)
           /\ disk = nsout.before


(***************************************************************************)
(* The remote node of a client.  check_blobs_not_found is called with the  *)
(* blob ids a certificate requires and the list of blob ids a validator    *)
(* reported as missing.                                                    *)
(***************************************************************************)
NumBlobIds == 3

MaxNotFound == 3

BlobIds == 1..NumBlobIds

BlobIdLists == UNION {[1..n -> BlobIds] : n \in 0..MaxNotFound}

(* A faulty check, which looks for duplicates before unexpected entries. *)
check_blobs_not_found_DuplicatesFirst(required, blob_ids) ==
    IF blob_ids = <<>> THEN "EmptyBlobsNotFound"
    ELSE IF Len(blob_ids) > Cardinality(Range(blob_ids))
         THEN "DuplicatesInBlobsNotFound"
         ELSE IF \E i \in 1..Len(blob_ids) : blob_ids[i] \notin required
              THEN "UnexpectedEntriesInBlobsNotFound"
              ELSE "Ok"

check_blobs_not_found(required, blob_ids) ==
    IF blob_ids = <<>> THEN "EmptyBlobsNotFound"
    ELSE IF \E i \in 1..Len(blob_ids) : blob_ids[i] \notin required
         THEN "UnexpectedEntriesInBlobsNotFound"
         ELSE IF Len(blob_ids) > Cardinality(Range(blob_ids))
              THEN "DuplicatesInBlobsNotFound"
              ELSE "Ok"

CheckBlobsNotFound(required, blob_ids) ==
    /\ ~cb.called
    /\ cb' = [called |-> TRUE, required |-> required, blob_ids |-> blob_ids,
              result |-> check_blobs_not_found(required, blob_ids)]
    /\ UNCHANGED <<jvars, rvars, pvars, nvars, jk, oc, dl>>

NextBlobsNotFound ==
    \E required \in SUBSET BlobIds, blob_ids \in BlobIdLists :
        CheckBlobsNotFound(required, blob_ids)

SpecBlobsNotFound == Init /\ [][NextBlobsNotFound]_vars

(***************************************************************************)
(* C34.  check_blobs_not_found returns Ok exactly when the list is not     *)
(* empty, every id of it is required by the certificate and no id is       *)
(* repeated; an empty list gives EmptyBlobsNotFound, otherwise an id that  *)
(* is not required gives UnexpectedEntriesInBlobsNotFound, otherwise a     *)
(* repeated id gives DuplicatesInBlobsNotFound.                            *)
(***************************************************************************)
CbNonEmpty == Len(cb.blob_ids) > 0

CbAllRequired == \A i \in 1..Len(cb.blob_ids) : cb.blob_ids[i] \in cb.required

CbNoDuplicates ==
    \A i, j \in 1..Len(cb.blob_ids) : i # j => cb.blob_ids[i] # cb.blob_ids[j]

C34_CheckBlobsNotFound ==
    cb.called =>
        /\ cb.result = "Ok" <=> (CbNonEmpty /\ CbAllRequired /\ CbNoDuplicates)
        /\ ~CbNonEmpty => cb.result = "EmptyBlobsNotFound"
        /\ (CbNonEmpty /\ ~CbAllRequired) => cb.result = "UnexpectedEntriesInBlobsNotFound"
        /\ (CbNonEmpty /\ CbAllRequired /\ ~CbNoDuplicates)
               => cb.result = "DuplicatesInBlobsNotFound"

C34_Witness ==
    /\ cb.called
    /\ cb.required = {1}
    /\ cb.blob_ids = <<1, 1, 2>>
    /\ cb.result = "UnexpectedEntriesInBlobsNotFound"


(***************************************************************************)
(* Optimized certificate delivery.  The validator node answers a request   *)
(* with an error or with a ChainInfoResponse, of which the model keeps     *)
(* the three facts check_and_return_info tests.                            *)
(***************************************************************************)
NodeErrors == {"MissingCertificateValue", "BlobsNotFound", "ClientIoError"}

NodeAnswers ==
    [error : {"none"}, proposed : BOOLEAN, locking : BOOLEAN, check : BOOLEAN]
    \cup [error : NodeErrors, proposed : {TRUE}, locking : {TRUE}, check : {TRUE}]

Deliveries == {"Blocking", "NonBlocking"}

check_and_return_info(response) ==
    IF response.proposed /\ response.locking /\ response.check
    THEN "Ok"
    ELSE "InvalidChainInfoResponse"

handle_lite_certificate(answer) ==
    IF answer.error # "none" THEN answer.error ELSE check_and_return_info(answer)

handle_validated_certificate(answer) ==
    IF answer.error # "none" THEN answer.error ELSE check_and_return_info(answer)

handle_confirmed_certificate(answer) ==
    IF answer.error # "none" THEN answer.error ELSE check_and_return_info(answer)

LiteRequest(delivery) == [req |-> "lite", delivery |-> delivery]

FullRequest(kind, delivery) ==
    IF kind = "validated"
    THEN [req |-> "validated", delivery |-> "none"]
    ELSE [req |-> "confirmed", delivery |-> delivery]

OcIdleFrame == UNCHANGED <<jvars, rvars, pvars, nvars, jk, cb, dl>>

(* The call, up to its first request: is_signed_by decides which. *)
HandleOptimized(kind, signed, delivery) ==
    /\ oc.at = "idle"
    /\ oc' = [at |-> IF signed THEN "lite" ELSE "full",
              kind |-> kind, signed |-> signed, delivery |-> delivery,
              sent |-> IF signed THEN <<LiteRequest(delivery)>>
                                 ELSE <<FullRequest(kind, delivery)>>,
              received |-> <<>>, lite |-> "none", result |-> "none"]
    /\ OcIdleFrame

(* A faulty match, which sends the full certificate after any error. *)
LiteResponse_RetryAnyError(answer) ==
    /\ oc.at = "lite"
    /\ LET result == handle_lite_certificate(answer)
       IN  oc' = IF result # "Ok"
                 THEN [oc EXCEPT !.at = "full", !.lite = result,
                                 !.received = Append(@, answer),
                                 !.sent = Append(@, FullRequest(oc.kind, oc.delivery))]
                 ELSE [oc EXCEPT !.at = "done", !.lite = result, !.result = result,
                                 !.received = Append(@, answer)]
    /\ OcIdleFrame

(* The answer to the lite certificate and the match on its result. *)
LiteResponse(answer) ==
    /\ oc.at = "lite"
    /\ LET result == handle_lite_certificate(answer)
       IN  oc' = IF result = "MissingCertificateValue"
                 THEN [oc EXCEPT !.at = "full", !.lite = result,
                                 !.received = Append(@, answer),
                                 !.sent = Append(@, FullRequest(oc.kind, oc.delivery))]
                 ELSE [oc EXCEPT !.at = "done", !.lite = result, !.result = result,
                                 !.received = Append(@, answer)]
    /\ OcIdleFrame

(* The answer to the full certificate, which is the result of the call. *)
FullResponse(answer) ==
    /\ oc.at = "full"
    /\ oc' = [oc EXCEPT !.at = "done",
                        !.received = Append(@, answer),
                        !.result = IF oc.kind = "validated"
                                   THEN handle_validated_certificate(answer)
                                   ELSE handle_confirmed_certificate(answer)]
    /\ OcIdleFrame

NextOptimized ==
    \/ \E kind \in {"validated", "confirmed"}, signed \in BOOLEAN, delivery \in Deliveries :
           HandleOptimized(kind, signed, delivery)
    \/ \E answer \in NodeAnswers : LiteResponse(answer)
    \/ \E answer \in NodeAnswers : FullResponse(answer)

SpecOptimized == Init /\ [][NextOptimized]_vars

(***************************************************************************)
(* C35.  handle_optimized_validated_certificate and                        *)
(* handle_optimized_confirmed_certificate send the lite certificate first  *)
(* exactly when the certificate is signed by this validator; the full      *)
(* certificate is sent exactly when the validator did not sign or the      *)
(* lite attempt failed with MissingCertificateValue; any other lite        *)
(* result is the result of the call; a call makes at most two requests.    *)
(***************************************************************************)
OcFullSent == \E i \in 1..Len(oc.sent) : oc.sent[i].req = oc.kind

OcLiteSent == \E i \in 1..Len(oc.sent) : oc.sent[i].req = "lite"

C35_OptimizedDelivery ==
    oc.at # "idle" =>
        /\ Len(oc.sent) \in 1..2
        /\ \A i \in 1..Len(oc.sent) : oc.sent[i].req \in {"lite", oc.kind}
        /\ OcLiteSent <=> oc.signed
        /\ OcLiteSent => (oc.sent[1].req = "lite" /\ (Len(oc.sent) = 2 => oc.sent[2].req = oc.kind))
        /\ OcFullSent <=> (~oc.signed \/ oc.lite = "MissingCertificateValue")
        /\ (oc.signed /\ oc.lite \notin {"none", "MissingCertificateValue"})
               => (oc.at = "done" /\ oc.result = oc.lite /\ ~OcFullSent)
        /\ oc.at = "done" => oc.result # "none"

C35_Witness ==
    /\ oc.at = "done"
    /\ oc.kind = "confirmed"
    /\ oc.signed
    /\ oc.lite = "MissingCertificateValue"
    /\ Len(oc.sent) = 2
    /\ oc.result = "Ok"

C35_LiteErrorWitness ==
    /\ oc.at = "done"
    /\ oc.kind = "validated"
    /\ oc.signed
    /\ oc.lite = "InvalidChainInfoResponse"
    /\ Len(oc.sent) = 1


(***************************************************************************)
(* Blob download.  download_blobs runs one download_blob per requested     *)
(* id; a download_blob asks every validator of the list, in an order that  *)
(* the shuffle and the network decide, and each validator answers with an  *)
(* error or with a blob, of which the model keeps the id Blob::new gives   *)
(* it.                                                                     *)
(***************************************************************************)
MaxRequested == 2

Validators == {"v1", "v2"}

RequestLists == UNION {[1..n -> BlobIds] : n \in 0..MaxRequested}

BlobAnswers == {[ok |-> FALSE, id |-> 0]} \cup [ok : {TRUE}, id : BlobIds]

NoBlob == [some |-> FALSE, id |-> 0]

(* A faulty download, which takes whatever blob the validator sends. *)
try_download_blob_AnyBlob(blob_id, answer) ==
    IF answer.ok THEN [some |-> TRUE, id |-> answer.id] ELSE NoBlob

try_download_blob(blob_id, answer) ==
    IF answer.ok
    THEN IF answer.id # blob_id THEN NoBlob ELSE [some |-> TRUE, id |-> answer.id]
    ELSE NoBlob

DlIdleFrame == UNCHANGED <<jvars, rvars, pvars, nvars, jk, cb, oc>>

(* download_blobs up to its first await: one download_blob per id.  With   *)
(* no id the stream is empty and Some of the empty list is returned.       *)
DownloadBlobs(blob_ids, validators) ==
    /\ dl.at = "idle"
    /\ dl' = [at |-> IF blob_ids = <<>> THEN "done" ELSE "running",
              blob_ids |-> blob_ids,
              validators |-> validators,
              tasks |-> [i \in 1..Len(blob_ids) |-> [failed |-> {}, outcome |-> "pending"]],
              blobs |-> <<>>,
              result |-> IF blob_ids = <<>> THEN "Some" ELSE "none"]
    /\ DlIdleFrame

(* The future of validator v in the download_blob of request i completes:  *)
(* None is skipped, Some ends the download_blob, and download_blobs pushes *)
(* the blob and returns when its stream is exhausted.                      *)
ValidatorAnswers(i, v, answer) ==
    /\ dl.at = "running"
    /\ i \in 1..Len(dl.blob_ids)
    /\ dl.tasks[i].outcome = "pending"
    /\ v \in dl.validators \ dl.tasks[i].failed
    /\ LET maybe_blob == try_download_blob(dl.blob_ids[i], answer)
           tasks == [dl.tasks EXCEPT ![i].outcome = "Some"]
           finished == \A j \in 1..Len(tasks) : tasks[j].outcome = "Some"
       IN  dl' = IF maybe_blob.some
                 THEN [dl EXCEPT !.tasks = tasks,
                                 !.blobs = Append(@, [request |-> i, id |-> maybe_blob.id]),
                                 !.at = IF finished THEN "done" ELSE "running",
                                 !.result = IF finished THEN "Some" ELSE "none"]
                 ELSE [dl EXCEPT !.tasks[i].failed = @ \cup {v}]
    /\ DlIdleFrame

(* The stream of the download_blob of request i is exhausted: it returns   *)
(* None, and download_blobs returns None at once.                          *)
StreamExhausted(i) ==
    /\ dl.at = "running"
    /\ i \in 1..Len(dl.blob_ids)
    /\ dl.tasks[i].outcome = "pending"
    /\ dl.tasks[i].failed = dl.validators
    /\ dl' = [dl EXCEPT !.tasks[i].outcome = "None", !.at = "done", !.result = "None"]
    /\ DlIdleFrame

NextDownload ==
    \/ \E blob_ids \in RequestLists, validators \in SUBSET Validators :
           DownloadBlobs(blob_ids, validators)
    \/ \E i \in 1..MaxRequested, v \in Validators, answer \in BlobAnswers :
           ValidatorAnswers(i, v, answer)
    \/ \E i \in 1..MaxRequested : StreamExhausted(i)

SpecDownload == Init /\ [][NextDownload]_vars

(***************************************************************************)
(* C36.  download_blob returns Some(blob) only for a blob whose id is the  *)
(* requested id; an answer with another id or an error is skipped and the  *)
(* other validators are still tried; it returns None only after every      *)
(* validator has failed.  download_blobs returns None when a requested     *)
(* blob was not found, and otherwise one blob for every requested id.      *)
(***************************************************************************)
DlRequests == 1..Len(dl.blob_ids)

C36_BlobDownload ==
    dl.at # "idle" =>
        /\ \A k \in 1..Len(dl.blobs) :
               /\ dl.blobs[k].request \in DlRequests
               /\ dl.blobs[k].id = dl.blob_ids[dl.blobs[k].request]
               /\ dl.tasks[dl.blobs[k].request].outcome = "Some"
        /\ \A i \in DlRequests :
               /\ dl.tasks[i].outcome = "None" => dl.tasks[i].failed = dl.validators
               /\ dl.tasks[i].outcome = "Some"
                      => Cardinality({k \in 1..Len(dl.blobs) : dl.blobs[k].request = i}) = 1
               /\ (dl.tasks[i].outcome = "pending" /\ dl.tasks[i].failed # dl.validators
                     /\ dl.at = "running")
                      => ENABLED ValidatorAnswers(i, CHOOSE v \in dl.validators \ dl.tasks[i].failed : TRUE,
                                                   [ok |-> TRUE, id |-> dl.blob_ids[i]])
        /\ dl.at = "done" =>
               /\ dl.result \in {"Some", "None"}
               /\ dl.result = "None" <=> \E i \in DlRequests : dl.tasks[i].outcome = "None"
               /\ dl.result = "Some" =>
                      /\ Len(dl.blobs) = Len(dl.blob_ids)
                      /\ \A i \in DlRequests : dl.tasks[i].outcome = "Some"
        /\ dl.at = "running" => dl.result = "none"

C36_Witness ==
    /\ dl.at = "done"
    /\ dl.result = "Some"
    /\ dl.blob_ids = <<2, 1>>
    /\ Len(dl.blobs) = 2
    /\ dl.blobs[1].id = 1
    /\ dl.tasks[1].failed = {"v1"}
    /\ dl.tasks[2].failed = {"v2"}

C36_NoneWitness ==
    /\ dl.at = "done"
    /\ dl.result = "None"
    /\ dl.validators = Validators
    /\ Len(dl.blobs) = 1

=============================================================================
